---------------------------- MODULE Spec2Model ----------------------------
(***************************************************************************)
(* Model of the probability / expected-value engine of                    *)
(* fantasy-probabilities: the odds conversions of OddsManager              *)
(* (src/odds_api.py), the value analysis of FantasyCalculatorApp           *)
(* (src/fantasy_calculator_main.py) and the best-price fold of             *)
(* get_sport_opportunities (src/app.py).                                   *)
(*                                                                         *)
(* Numbers.  Python floats are modelled as exact rationals <<n, d>> in     *)
(* lowest terms with d > 0.  A value rounded by round(x, k) is held as the *)
(* integer x * 10^k (47.62 percent is 4762, an expected value of -0.005 is *)
(* -5).  A point/line is [kind, halves]: kind is the Python type that the  *)
(* JSON number parsed to ("int" or "float") and halves is twice its value, *)
(* so that the int 3 and the float 3.0 are equal as numbers and differ in  *)
(* the text str() gives them.                                              *)
(***************************************************************************)
EXTENDS Integers, Sequences, FiniteSets, TLC

VARIABLES
    sport,             \* argument of get_sport_opportunities
    pc,                \* position in get_sport_opportunities
    best_odds_map,     \* team-prop accumulator, an insertion-ordered dict
    player_best_odds,  \* player-prop accumulator, an insertion-ordered dict
    opportunities,     \* the list being returned
    seen,              \* history: every outcome handed to the two loops
    call,              \* the last call of an operation, with its result
    database,          \* DatabaseManager: its db_path and the teams table of its file
    added,             \* history: the teams handed to add_team
    cache,             \* the cache dict of app.py: key -> (data, timestamp)
    clock,             \* the time, in seconds
    fetches,           \* history: the calls made to the odds provider
    threads,           \* the requests being served: position and local variables
    calls,             \* the calls list of one rate_limit decorator
    requests           \* history: the requests that reached the decorator

foldVars == <<sport, pc, best_odds_map, player_best_odds, opportunities, seen>>

dbVars == <<database, added>>

cacheVars == <<cache, clock, fetches, threads>>

rateVars == <<calls, requests>>

svcVars == <<dbVars, cacheVars, rateVars>>

vars == <<foldVars, call, svcVars>>

---------------------------------------------------------------------------
(* Bounds of the model. *)

MaxQuotes == 3        \* outcomes processed by one run, specification Spec
MaxKeyQuotes == 2     \* outcomes processed by one run, specification SpecKeys
MaxOdds == 250        \* American odds of the pure operations: -MaxOdds..MaxOdds
MaxFairLen == 3       \* length of the list given to calculate_fair_odds
ProbDen == 40         \* calculated probabilities are k / ProbDen

---------------------------------------------------------------------------
(* Exact arithmetic standing for Python's float arithmetic. *)

Abs(x) == IF x < 0 THEN -x ELSE x

RECURSIVE Gcd(_, _)
Gcd(a, b) == IF b = 0 THEN a ELSE Gcd(b, a % b)

\* The rational n / d (d # 0) in lowest terms with a positive denominator.
Rat(n, d) ==
    LET g == Gcd(Abs(n), Abs(d))
        s == IF d < 0 THEN -1 ELSE 1
    IN  <<(s * n) \div g, (s * d) \div g>>

\* Common factors are divided out before multiplying, which keeps the
\* intermediate integers small.
RAdd(a, b) ==
    LET g == Gcd(a[2], b[2])
    IN  Rat(a[1] * (b[2] \div g) + b[1] * (a[2] \div g), (a[2] \div g) * b[2])

RSub(a, b) == RAdd(a, <<-b[1], b[2]>>)

RMul(a, b) ==
    LET g1 == Gcd(Abs(a[1]), b[2])
        g2 == Gcd(Abs(b[1]), a[2])
    IN  Rat((a[1] \div g1) * (b[1] \div g2), (a[2] \div g2) * (b[2] \div g1))

\* b # 0
RDiv(a, b) == RMul(a, IF b[1] < 0 THEN <<-b[2], -b[1]>> ELSE <<b[2], b[1]>>)

RLt(a, b) ==
    LET g == Gcd(a[2], b[2])
    IN  a[1] * (b[2] \div g) < b[1] * (a[2] \div g)

RLe(a, b) ==
    LET g == Gcd(a[2], b[2])
    IN  a[1] * (b[2] \div g) <= b[1] * (a[2] \div g)

RAbs(a) == <<Abs(a[1]), a[2]>>

\* round(x, k) held as an integer, scale = 10^k: the nearest integer to
\* x * scale, a tie going to the even one.
PyRound(x, scale) ==
    LET n == x[1] * scale
        d == x[2]
        q == n \div d
        r == n % d
    IN  IF 2 * r < d THEN q
        ELSE IF 2 * r > d THEN q + 1
        ELSE IF q % 2 = 0 THEN q ELSE q + 1

---------------------------------------------------------------------------
(* Points and lines. *)

IntPoint(n) == [kind |-> "int", halves |-> 2 * n]
FloatPoint(h) == [kind |-> "float", halves |-> h]
NonePoint == [kind |-> "None", halves |-> 0]

\* str(point) as the f-string of the key renders it: "3" for the int 3, "3.0"
\* and "-3.5" for the floats 3.0 and -3.5.
PyStr(point) ==
    IF point.kind = "int" THEN ToString(point.halves \div 2)
    ELSE (IF point.halves < 0 THEN "-" ELSE "")
         \o ToString(Abs(point.halves) \div 2)
         \o (IF Abs(point.halves) % 2 = 0 THEN ".0" ELSE ".5")

---------------------------------------------------------------------------
(* Insertion-ordered dicts: a sequence of [key, value] entries. *)

HasKey(map, k) == \E i \in 1..Len(map) : map[i].key = k

IndexOf(map, k) == CHOOSE i \in 1..Len(map) : map[i].key = k

Lookup(map, k) == map[IndexOf(map, k)].value

\* map[k] = v: a new key is appended, an existing one keeps its place.
Store(map, k, v) ==
    IF HasKey(map, k)
    THEN [map EXCEPT ![IndexOf(map, k)] = [key |-> k, value |-> v]]
    ELSE Append(map, [key |-> k, value |-> v])

Values(map) == [i \in 1..Len(map) |-> map[i].value]

Range(s) == {s[i] : i \in 1..Len(s)}

\* ', '.join(names)
RECURSIVE Join(_)
Join(names) ==
    IF Len(names) = 0 THEN ""
    ELSE IF Len(names) = 1 THEN names[1]
    ELSE names[1] \o ", " \o Join(Tail(names))

---------------------------------------------------------------------------
(* OddsManager: the odds conversions (src/odds_api.py).  The argument is a *)
(* rational, as the Python argument is a float.                            *)

\* Faulty variant: the negative branch divides by american_odds, not by its
\* absolute value.
convert_american_to_decimal_noabs(american_odds) ==
    IF american_odds[1] > 0
    THEN RAdd(RDiv(american_odds, <<100, 1>>), <<1, 1>>)
    ELSE RAdd(RDiv(<<100, 1>>, american_odds), <<1, 1>>)

\* american_odds # 0; at 0 the division raises ZeroDivisionError.
convert_american_to_decimal(american_odds) ==
    IF american_odds[1] > 0
    THEN RAdd(RDiv(american_odds, <<100, 1>>), <<1, 1>>)
    ELSE RAdd(RDiv(<<100, 1>>, RAbs(american_odds)), <<1, 1>>)

\* Faulty variant: the complement 1 - 1/decimal.
convert_american_to_probability_stake(american_odds) ==
    RSub(<<1, 1>>, RDiv(<<1, 1>>, convert_american_to_decimal(american_odds)))

convert_american_to_probability(american_odds) ==
    LET decimal_odds == convert_american_to_decimal(american_odds)
    IN  RDiv(<<1, 1>>, decimal_odds)

RECURSIVE RSum(_)
RSum(s) == IF Len(s) = 0 THEN <<0, 1>> ELSE RAdd(s[1], RSum(Tail(s)))

\* Faulty variant: the sign test is avg_probability > 0.5.
calculate_fair_odds_flipped(odds_list) ==
    IF Len(odds_list) = 0 THEN <<0, 1>>
    ELSE
        LET probabilities ==
                [i \in 1..Len(odds_list) |->
                    convert_american_to_probability(<<odds_list[i], 1>>)]
            avg_probability == RDiv(RSum(probabilities), <<Len(probabilities), 1>>)
        IN  IF RLt(<<1, 2>>, avg_probability)
            THEN RMul(RDiv(avg_probability, RSub(<<1, 1>>, avg_probability)), <<-100, 1>>)
            ELSE RMul(RDiv(RSub(<<1, 1>>, avg_probability), avg_probability), <<100, 1>>)

\* Every entry of odds_list is nonzero.
calculate_fair_odds(odds_list) ==
    IF Len(odds_list) = 0 THEN <<0, 1>>
    ELSE
        LET probabilities ==
                [i \in 1..Len(odds_list) |->
                    convert_american_to_probability(<<odds_list[i], 1>>)]
            avg_probability == RDiv(RSum(probabilities), <<Len(probabilities), 1>>)
        IN  IF RLe(<<1, 2>>, avg_probability)
            THEN RMul(RDiv(avg_probability, RSub(<<1, 1>>, avg_probability)), <<-100, 1>>)
            ELSE RMul(RDiv(RSub(<<1, 1>>, avg_probability), avg_probability), <<100, 1>>)

---------------------------------------------------------------------------
(* FantasyCalculatorApp.analyze_prop_value (src/fantasy_calculator_main.py) *)

\* payout per unit staked
prop_payout(odds) ==
    IF odds > 0 THEN Rat(odds, 100) ELSE Rat(100, Abs(odds))

\* Faulty variant: the edge formula of get_sport_opportunities,
\* (calculated - implied) * payout.
prop_expected_value_edge(calculated_prob, payout) ==
    RMul(RSub(calculated_prob, RDiv(<<1, 1>>, RAdd(payout, <<1, 1>>))), payout)

prop_expected_value(calculated_prob, payout) ==
    RSub(RMul(calculated_prob, payout), RSub(<<1, 1>>, calculated_prob))

\* Faulty variant: the threshold test is expected_value >= 0.05.
analyze_prop_value_inclusive(calculated_prob, odds) ==
    LET implied_prob == convert_american_to_probability(<<odds, 1>>)
        payout == prop_payout(odds)
        expected_value == prop_expected_value(calculated_prob, payout)
        value_pct ==
            IF implied_prob[1] > 0
            THEN RMul(RDiv(RSub(calculated_prob, implied_prob), implied_prob), <<100, 1>>)
            ELSE <<0, 1>>
    IN  [calculated_probability |-> calculated_prob,
         implied_probability |-> implied_prob,
         expected_value |-> expected_value,
         value_percentage |-> value_pct,
         has_value |-> RLe(<<5, 100>>, expected_value),
         recommendation |-> IF RLe(<<5, 100>>, expected_value) THEN "BET" ELSE "PASS"]

\* odds # 0; at 0 convert_american_to_probability raises ZeroDivisionError.
analyze_prop_value(calculated_prob, odds) ==
    LET implied_prob == convert_american_to_probability(<<odds, 1>>)
        payout == prop_payout(odds)
        expected_value == prop_expected_value(calculated_prob, payout)
        value_pct ==
            IF implied_prob[1] > 0
            THEN RMul(RDiv(RSub(calculated_prob, implied_prob), implied_prob), <<100, 1>>)
            ELSE <<0, 1>>
    IN  [calculated_probability |-> calculated_prob,
         implied_probability |-> implied_prob,
         expected_value |-> expected_value,
         value_percentage |-> value_pct,
         has_value |-> RLt(<<5, 100>>, expected_value),
         recommendation |-> IF RLt(<<5, 100>>, expected_value) THEN "BET" ELSE "PASS"]

---------------------------------------------------------------------------
(* get_sport_opportunities (src/app.py): the per-outcome computations.     *)

DisplayedMarkets == {"h2h", "spreads", "totals"}

implied_prob(odds) ==
    IF odds > 0 THEN Rat(100, odds + 100) ELSE Rat(Abs(odds), Abs(odds) + 100)

potential_payout(odds) ==
    IF odds > 0 THEN Rat(odds, 100) ELSE Rat(100, Abs(odds))

\* Faulty variant: the two moneyline factors exchanged.
team_calculated_prob_swapped(market_key, odds, point, implied) ==
    IF market_key = "h2h"
    THEN IF Abs(odds) > 200
         THEN RMul(implied, <<99, 100>>)
         ELSE RMul(implied, <<98, 100>>)
    ELSE IF market_key = "spreads" /\ point.halves # 0
    THEN RMul(implied, <<985, 1000>>)
    ELSE IF market_key = "totals" /\ point.halves # 0
    THEN RMul(implied, <<985, 1000>>)
    ELSE implied

\* The "historical data" adjustment of a team outcome.
team_calculated_prob(market_key, odds, point, implied) ==
    IF market_key = "h2h"
    THEN IF Abs(odds) > 200
         THEN RMul(implied, <<98, 100>>)
         ELSE RMul(implied, <<99, 100>>)
    ELSE IF market_key = "spreads" /\ point.halves # 0
    THEN RMul(implied, <<985, 1000>>)
    ELSE IF market_key = "totals" /\ point.halves # 0
    THEN RMul(implied, <<985, 1000>>)
    ELSE implied

\* The adjustment of a player outcome.
player_calculated_prob(odds, implied) ==
    IF Abs(odds) < 150
    THEN RMul(implied, <<97, 100>>)
    ELSE RMul(implied, <<96, 100>>)

\* Faulty variant: the difference taken the other way round.
expected_value_swapped(calculated, implied, payout) ==
    RMul(RSub(implied, calculated), payout)

expected_value(calculated, implied, payout) ==
    RMul(RSub(calculated, implied), payout)

game_id(q) == q.away_team \o "@" \o q.home_team

team_opp_key(q) ==
    IF q.key \in {"spreads", "totals"}
    THEN game_id(q) \o "|" \o q.key \o "|" \o q.name \o "|" \o PyStr(q.point)
    ELSE game_id(q) \o "|" \o q.key \o "|" \o q.name

player_opp_key(q) ==
    game_id(q) \o "|" \o q.name \o "|" \o q.key \o "|" \o PyStr(q.point)

\* Faulty variant: the larger magnitude wins.
is_better_magnitude(odds, existing_odds) ==
    Abs(odds) > Abs(existing_odds)

is_better(odds, existing_odds) ==
    \/ odds > 0 /\ odds > existing_odds
    \/ odds < 0 /\ odds > existing_odds

\* market_key.upper()
Upper(market_key) ==
    CASE market_key = "h2h" -> "H2H"
      [] market_key = "spreads" -> "SPREADS"
      [] market_key = "totals" -> "TOTALS"
      [] OTHER -> market_key

\* market_key.replace('player_', '').replace('_', ' ').title()
PropTitle(market_key) ==
    CASE market_key = "player_points" -> "Points"
      [] market_key = "player_pass_yds" -> "Pass Yds"
      [] OTHER -> market_key

new_team_record(sp, q) ==
    LET implied == implied_prob(q.price)
        calculated == team_calculated_prob(q.key, q.price, q.point, implied)
        ev == expected_value(calculated, implied, potential_payout(q.price))
    IN  [type |-> "team_prop",
         sport |-> sp,
         selection |-> q.name,
         prop |-> Upper(q.key),
         line |-> IF q.point.halves # 0 THEN q.point ELSE NonePoint,
         odds |-> q.price,
         implied_probability |-> PyRound(implied, 10000),
         calculated_probability |-> PyRound(calculated, 10000),
         expected_value |-> PyRound(ev, 1000),
         game |-> q.away_team \o " @ " \o q.home_team,
         bookmaker |-> q.title,
         bookmakers |-> <<q.title>>]

new_player_record(sp, q) ==
    LET implied == implied_prob(q.price)
        calculated == player_calculated_prob(q.price, implied)
        ev == expected_value(calculated, implied, potential_payout(q.price))
    IN  [type |-> "player_prop",
         sport |-> sp,
         player |-> q.name,
         prop |-> PropTitle(q.key),
         line |-> q.point,
         odds |-> q.price,
         implied_probability |-> PyRound(implied, 10000),
         calculated_probability |-> PyRound(calculated, 10000),
         expected_value |-> PyRound(ev, 1000),
         game |-> q.away_team \o " @ " \o q.home_team,
         bookmaker |-> q.title,
         bookmakers |-> <<q.title>>]

\* The is_better branch: odds, bookmaker(s), implied probability and expected
\* value are overwritten; calculated is the local of the outcome being
\* processed, and the record's calculated_probability is not assigned.
replace_price(existing, q, calculated) ==
    LET implied == implied_prob(q.price)
        payout == potential_payout(q.price)
    IN  [existing EXCEPT
            !.odds = q.price,
            !.bookmaker = q.title,
            !.bookmakers = <<q.title>>,
            !.implied_probability = PyRound(implied, 10000),
            !.expected_value = PyRound(expected_value(calculated, implied, payout), 1000)]

\* Faulty variant: the equal-odds branch without the membership test.
add_bookmaker_nodedup(existing, bookmaker_name) ==
    [existing EXCEPT
        !.bookmakers = Append(existing.bookmakers, bookmaker_name),
        !.bookmaker = Join(Append(existing.bookmakers, bookmaker_name))]

\* The equal-odds branch.
add_bookmaker(existing, bookmaker_name) ==
    IF bookmaker_name \notin Range(existing.bookmakers)
    THEN [existing EXCEPT
            !.bookmakers = Append(existing.bookmakers, bookmaker_name),
            !.bookmaker = Join(Append(existing.bookmakers, bookmaker_name))]
    ELSE existing

\* One pass of the innermost loop over an existing record.
fold_existing(existing, q, calculated) ==
    IF is_better(q.price, existing.odds) THEN replace_price(existing, q, calculated)
    ELSE IF q.price = existing.odds THEN add_bookmaker(existing, q.title)
    ELSE existing

\* Faulty variant: a zero price ends the loop with the records lost.
fold_team_outcome_abort(map, sp, q) ==
    IF q.key \notin DisplayedMarkets THEN map
    ELSE IF q.price = 0 THEN <<>>
    ELSE
        LET opp_key == team_opp_key(q)
            calculated ==
                team_calculated_prob(q.key, q.price, q.point, implied_prob(q.price))
        IN  IF ~HasKey(map, opp_key)
            THEN Store(map, opp_key, new_team_record(sp, q))
            ELSE Store(map, opp_key, fold_existing(Lookup(map, opp_key), q, calculated))

\* The body of the innermost team loop: the map after outcome q.
fold_team_outcome(map, sp, q) ==
    IF q.key \notin DisplayedMarkets THEN map
    ELSE IF q.price = 0 THEN map
    ELSE
        LET opp_key == team_opp_key(q)
            calculated ==
                team_calculated_prob(q.key, q.price, q.point, implied_prob(q.price))
        IN  IF ~HasKey(map, opp_key)
            THEN Store(map, opp_key, new_team_record(sp, q))
            ELSE Store(map, opp_key, fold_existing(Lookup(map, opp_key), q, calculated))

\* The body of the innermost player loop.
fold_player_outcome(map, sp, q) ==
    IF q.price = 0 THEN map
    ELSE
        LET opp_key == player_opp_key(q)
            calculated == player_calculated_prob(q.price, implied_prob(q.price))
        IN  IF ~HasKey(map, opp_key)
            THEN Store(map, opp_key, new_player_record(sp, q))
            ELSE Store(map, opp_key, fold_existing(Lookup(map, opp_key), q, calculated))

\* opportunities.sort(key=expected_value, reverse=True): stable, descending.
RECURSIVE InsertByEV(_, _)
InsertByEV(sorted, r) ==
    IF Len(sorted) = 0 THEN <<r>>
    ELSE IF sorted[Len(sorted)].expected_value >= r.expected_value
    THEN Append(sorted, r)
    ELSE Append(InsertByEV(SubSeq(sorted, 1, Len(sorted) - 1), r), sorted[Len(sorted)])

RECURSIVE SortByEV(_)
SortByEV(list) ==
    IF Len(list) = 0 THEN <<>>
    ELSE InsertByEV(SortByEV(SubSeq(list, 1, Len(list) - 1)), list[Len(list)])

---------------------------------------------------------------------------
(* The outcomes a feed may hold.  An outcome is flattened: it carries the  *)
(* teams of its game, the title of its bookmaker and the key of its market *)
(* with the defaults of .get() applied (a missing point is the int 0, a    *)
(* missing price is 0).                                                    *)

Sports == {"nfl", "nhl"}
Bookmakers == {"BookA", "BookB", "BookC"}
Prices == {-110, 0, 110, 120}

\* Specification Spec: one team bet and one player bet, every price at every
\* bookmaker.
TeamBets == {<<"spreads", FloatPoint(-7)>>}

TeamOutcomes ==
    {[home_team |-> "B", away_team |-> "A", title |-> b, key |-> m[1],
      name |-> "B", point |-> m[2], price |-> o] :
        b \in Bookmakers, m \in TeamBets, o \in Prices}

PlayerOutcomes ==
    {[home_team |-> "B", away_team |-> "A", title |-> b, key |-> "player_points",
      name |-> "P1", point |-> FloatPoint(51), price |-> o] :
        b \in Bookmakers, o \in Prices}

\* Specification SpecKeys: every game, market, selection and point, two prices.
KeyGames == {<<"A", "B">>, <<"B", "A">>}
KeyPoints == {IntPoint(0), IntPoint(3), FloatPoint(6), FloatPoint(7)}
KeyPrices == {110, 120}

KeyTeamOutcomes ==
    {[home_team |-> g[2], away_team |-> g[1], title |-> "BookA", key |-> m,
      name |-> n, point |-> pt, price |-> o] :
        g \in KeyGames, m \in {"h2h", "spreads", "totals", "h2h_lay"},
        n \in {"A", "B"}, pt \in KeyPoints, o \in KeyPrices}

KeyPlayerOutcomes ==
    {[home_team |-> g[2], away_team |-> g[1], title |-> "BookA", key |-> m,
      name |-> n, point |-> pt, price |-> o] :
        g \in KeyGames, m \in {"player_points", "player_pass_yds"},
        n \in {"P1", "P2"}, pt \in KeyPoints, o \in KeyPrices}

---------------------------------------------------------------------------
(* get_sport_opportunities as a state machine: one step per outcome of the *)
(* team loop, the hand-over to the player loop, one step per outcome of    *)
(* the player loop, and the final sort.                                    *)

NoCall == [fn |-> "none"]

Init ==
    /\ sport \in Sports
    /\ pc = "team_props"
    /\ best_odds_map = <<>>
    /\ player_best_odds = <<>>
    /\ opportunities = <<>>
    /\ seen = <<>>
    /\ call = NoCall
    /\ database = [db_path |-> "none", tables |-> FALSE, teams |-> <<>>]
    /\ added = <<>>
    /\ cache = <<>>
    /\ clock = 0
    /\ fetches = <<>>
    /\ threads = <<>>
    /\ calls = <<>>
    /\ requests = <<>>

TeamFolded(q) == q.key \in DisplayedMarkets /\ q.price # 0

PlayerFolded(q) == q.price # 0

ProcessTeamOutcome(q) ==
    /\ pc = "team_props"
    /\ best_odds_map' = fold_team_outcome(best_odds_map, sport, q)
    /\ seen' = Append(seen,
           [pool |-> "team", q |-> q,
            slot |-> IF TeamFolded(q)
                     THEN IndexOf(best_odds_map', team_opp_key(q)) ELSE 0])
    /\ UNCHANGED <<sport, pc, player_best_odds, opportunities, call, svcVars>>

BeginPlayerProps ==
    /\ pc = "team_props"
    /\ opportunities' = opportunities \o Values(best_odds_map)
    /\ pc' = "player_props"
    /\ UNCHANGED <<sport, best_odds_map, player_best_odds, seen, call, svcVars>>

ProcessPlayerOutcome(q) ==
    /\ pc = "player_props"
    /\ player_best_odds' = fold_player_outcome(player_best_odds, sport, q)
    /\ seen' = Append(seen,
           [pool |-> "player", q |-> q,
            slot |-> IF PlayerFolded(q)
                     THEN IndexOf(player_best_odds', player_opp_key(q)) ELSE 0])
    /\ UNCHANGED <<sport, pc, best_odds_map, opportunities, call, svcVars>>

Finish ==
    /\ pc = "player_props"
    /\ opportunities' = SortByEV(opportunities \o Values(player_best_odds))
    /\ pc' = "done"
    /\ UNCHANGED <<sport, best_odds_map, player_best_odds, seen, call, svcVars>>

FoldNext(TeamIn, PlayerIn, max) ==
    \/ \E q \in TeamIn : Len(seen) < max /\ ProcessTeamOutcome(q)
    \/ BeginPlayerProps
    \/ \E q \in PlayerIn : Len(seen) < max /\ ProcessPlayerOutcome(q)
    \/ Finish

Next == FoldNext(TeamOutcomes, PlayerOutcomes, MaxQuotes)

Spec == Init /\ [][Next]_vars

NextKeys == FoldNext(KeyTeamOutcomes, KeyPlayerOutcomes, MaxKeyQuotes)

SpecKeys == Init /\ [][NextKeys]_vars

---------------------------------------------------------------------------
(* The pure operations, applied to inputs drawn from bounded sets: one     *)
(* application per behaviour.                                              *)

OddsValues == -MaxOdds..MaxOdds
FairOddsValues == {-200, -110, 100, 140, 150, 155, 160}
EstimatePoints == {IntPoint(0), FloatPoint(-7)}

RECURSIVE SeqsUpTo(_, _)
SeqsUpTo(S, n) ==
    IF n = 0 THEN {<<>>}
    ELSE SeqsUpTo(S, n - 1)
         \cup {Append(s, x) : s \in {t \in SeqsUpTo(S, n - 1) : Len(t) = n - 1}, x \in S}

CallConvertDecimal(o) ==
    /\ call = NoCall
    /\ call' = [fn |-> "convert_american_to_decimal",
                american_odds |-> o,
                raised |-> (o = 0),
                result |-> IF o = 0 THEN <<0, 1>>
                           ELSE convert_american_to_decimal(<<o, 1>>)]
    /\ UNCHANGED <<foldVars, svcVars>>

CallConvertProbability(o) ==
    /\ call = NoCall
    /\ call' = [fn |-> "convert_american_to_probability",
                american_odds |-> o,
                raised |-> (o = 0),
                result |-> IF o = 0 THEN <<0, 1>>
                           ELSE convert_american_to_probability(<<o, 1>>)]
    /\ UNCHANGED <<foldVars, svcVars>>

CallFairOdds(l) ==
    /\ call = NoCall
    /\ call' = [fn |-> "calculate_fair_odds",
                odds_list |-> l,
                raised |-> FALSE,
                result |-> calculate_fair_odds(l)]
    /\ UNCHANGED <<foldVars, svcVars>>

CallAnalyzePropValue(k, o) ==
    /\ call = NoCall
    /\ call' = [fn |-> "analyze_prop_value",
                calculated_prob |-> Rat(k, ProbDen),
                odds |-> o,
                raised |-> (o = 0),
                result |-> IF o = 0 THEN [error |-> "ZeroDivisionError"]
                           ELSE analyze_prop_value(Rat(k, ProbDen), o)]
    /\ UNCHANGED <<foldVars, svcVars>>

\* The estimate of one nonzero-priced outcome of the team loop.
CallTeamEstimate(m, o, pt) ==
    /\ call = NoCall
    /\ o # 0
    /\ call' = [fn |-> "team_calculated_prob",
                market_key |-> m,
                odds |-> o,
                point |-> pt,
                implied |-> implied_prob(o),
                calculated |-> team_calculated_prob(m, o, pt, implied_prob(o))]
    /\ UNCHANGED <<foldVars, svcVars>>

\* The estimate of one nonzero-priced outcome of the player loop.
CallPlayerEstimate(o) ==
    /\ call = NoCall
    /\ o # 0
    /\ call' = [fn |-> "player_calculated_prob",
                market_key |-> "player_points",
                odds |-> o,
                point |-> FloatPoint(51),
                implied |-> implied_prob(o),
                calculated |-> player_calculated_prob(o, implied_prob(o))]
    /\ UNCHANGED <<foldVars, svcVars>>

NextOdds ==
    \/ call = NoCall /\ \E o \in OddsValues : CallConvertDecimal(o)
    \/ call = NoCall /\ \E o \in OddsValues : CallConvertProbability(o)
    \/ call = NoCall /\ \E l \in SeqsUpTo(FairOddsValues, MaxFairLen) : CallFairOdds(l)
    \/ call = NoCall /\ \E k \in 0..ProbDen, o \in OddsValues : CallAnalyzePropValue(k, o)
    \/ call = NoCall /\ \E m \in DisplayedMarkets, o \in OddsValues, pt \in EstimatePoints :
                            CallTeamEstimate(m, o, pt)
    \/ call = NoCall /\ \E o \in OddsValues : CallPlayerEstimate(o)

SpecOdds == Init /\ [][NextOdds]_vars

---------------------------------------------------------------------------
(* get_sport_opportunities as a function of what the two fetches deliver,  *)
(* and the two handlers that return its lists: get_opportunities and       *)
(* get_sport_opportunities_endpoint (src/app.py), on a cache miss.         *)
(*                                                                         *)
(* A category feed is [fetch, quotes, bad].  fetch is "raises" when the     *)
(* call that fetches the category raises.  quotes are the outcomes in the   *)
(* order the loops reach them.  bad = 0 when every element is well formed;  *)
(* bad = k > 0 when the loop raises on reaching outcome k (a malformed      *)
(* game, bookmaker, market or outcome), outcomes 1..k-1 being folded        *)
(* before.                                                                  *)

ResultCap == 100      \* opportunities[:100]
BigFeedGames == 101   \* games of the large team feed
MaxBusySports == 2    \* sports with a non-empty feed in one aggregation

AllSports == <<"nfl", "nba", "mlb", "nhl", "ncaaf", "ncaab">>

Min(a, b) == IF a < b THEN a ELSE b

RECURSIVE fold_team_props(_, _, _)
fold_team_props(sp, quotes, n) ==
    IF n = 0 THEN <<>>
    ELSE fold_team_outcome(fold_team_props(sp, quotes, n - 1), sp, quotes[n])

RECURSIVE fold_player_props(_, _, _)
fold_player_props(sp, quotes, n) ==
    IF n = 0 THEN <<>>
    ELSE fold_player_outcome(fold_player_props(sp, quotes, n - 1), sp, quotes[n])

\* The team block ends in the outer except clause.
team_props_raise(feed) == feed.team.fetch = "raises" \/ feed.team.bad # 0

\* The fetch of the player props has its own except clause, which leaves
\* cached_props empty.
cached_props(feed) ==
    IF feed.player.fetch = "raises" THEN <<>> ELSE feed.player.quotes

\* The player loop ends in the except clause of the player block.
player_props_raise(feed) == feed.player.fetch # "raises" /\ feed.player.bad # 0

\* Faulty variant: a team loop that raises leaves the records made so far in
\* the list.
get_sport_opportunities_partial(sp, feed) ==
    LET team_records ==
            IF feed.team.fetch = "raises" THEN <<>>
            ELSE IF feed.team.bad # 0
            THEN Values(fold_team_props(sp, feed.team.quotes, feed.team.bad - 1))
            ELSE Values(fold_team_props(sp, feed.team.quotes, Len(feed.team.quotes)))
        opps ==
            IF team_props_raise(feed) \/ player_props_raise(feed) THEN team_records
            ELSE team_records
                 \o Values(fold_player_props(sp, cached_props(feed), Len(cached_props(feed))))
    IN  SortByEV(opps)

\* The list get_sport_opportunities returns.  An exception of the team block
\* is caught by the outer except clause, past the player block: the list is
\* still empty, best_odds_map never having been added to it.  An exception of
\* the player loop is caught before player_best_odds is added.
get_sport_opportunities(sp, feed) ==
    LET team_records ==
            Values(fold_team_props(sp, feed.team.quotes, Len(feed.team.quotes)))
        opps ==
            IF team_props_raise(feed) THEN <<>>
            ELSE IF player_props_raise(feed) THEN team_records
            ELSE team_records
                 \o Values(fold_player_props(sp, cached_props(feed), Len(cached_props(feed))))
    IN  SortByEV(opps)

\* opportunities after the first n sports of the loop of get_opportunities.
\* get_sport_opportunities catches what its blocks raise, so the except
\* clause of this loop is never entered.
RECURSIVE aggregate(_, _)
aggregate(feeds, n) ==
    IF n = 0 THEN <<>>
    ELSE aggregate(feeds, n - 1)
         \o get_sport_opportunities(AllSports[n], feeds[AllSports[n]])

\* Faulty variant: the last ResultCap entries.
top_opportunities_last(opps) ==
    SubSeq(opps, Len(opps) - Min(Len(opps), ResultCap) + 1, Len(opps))

\* opportunities[:100]
top_opportunities(opps) == SubSeq(opps, 1, Min(Len(opps), ResultCap))

\* The body of the response of get_opportunities.
get_opportunities(feeds) ==
    LET opps == SortByEV(aggregate(feeds, Len(AllSports)))
    IN  [opportunities |-> top_opportunities(opps),
         count |-> Len(top_opportunities(opps))]

\* The body of the response of get_sport_opportunities_endpoint.
get_sport_opportunities_endpoint(sp, feed) ==
    LET opps == get_sport_opportunities(sp, feed)
    IN  [sport |-> sp, opportunities |-> opps, count |-> Len(opps)]

\* The feeds.  TeamQuote(i, o) is the moneyline outcome of the home team of
\* game i at price o, PlayerQuote(i, o) the points prop of player i.
TeamQuote(i, o) ==
    [home_team |-> "H" \o ToString(i), away_team |-> "A" \o ToString(i),
     title |-> "BookA", key |-> "h2h", name |-> "H" \o ToString(i),
     point |-> IntPoint(0), price |-> o]

PlayerQuote(i, o) ==
    [home_team |-> "H" \o ToString(i), away_team |-> "A" \o ToString(i),
     title |-> "BookA", key |-> "player_points", name |-> "P" \o ToString(i),
     point |-> FloatPoint(51), price |-> o]

OkFeed(quotes) == [fetch |-> "ok", quotes |-> quotes, bad |-> 0]
BadFeed(quotes, k) == [fetch |-> "ok", quotes |-> quotes, bad |-> k]
NoFeed == [fetch |-> "raises", quotes |-> <<>>, bad |-> 0]

SmallTeam == <<TeamQuote(1, -110), TeamQuote(2, 300)>>
SmallPlayer == <<PlayerQuote(1, 120), PlayerQuote(2, -110)>>

\* Prices rising by 10 from +110, neighbours exchanged: the expected values
\* fall along the feed except inside each pair.
BigPrice(i) == 100 + 10 * (IF i % 2 = 1 THEN i + 1 ELSE i - 1)
BigTeam == [i \in 1..BigFeedGames |-> TeamQuote(i, BigPrice(i))]

Quiet == [team |-> OkFeed(<<>>), player |-> OkFeed(<<>>)]
BigFeed == [team |-> OkFeed(BigTeam), player |-> OkFeed(SmallPlayer)]

SportFeeds ==
    {Quiet,
     [team |-> OkFeed(SmallTeam), player |-> OkFeed(SmallPlayer)],
     [team |-> NoFeed, player |-> OkFeed(SmallPlayer)],
     [team |-> BadFeed(SmallTeam, 2), player |-> OkFeed(SmallPlayer)],
     [team |-> OkFeed(SmallTeam), player |-> NoFeed],
     [team |-> OkFeed(SmallTeam), player |-> BadFeed(SmallPlayer, 2)]}

SportSet == Range(AllSports)

\* One feed per sport: the large feed at "nfl" only, and at most
\* MaxBusySports sports with anything to say.
AllFeeds ==
    {feeds \in [SportSet -> SportFeeds \cup {BigFeed}] :
        /\ \A s \in SportSet : feeds[s] = BigFeed => s = "nfl"
        /\ Cardinality({s \in SportSet : feeds[s] # Quiet}) <= MaxBusySports}

CallGetOpportunities(feeds) ==
    /\ call = NoCall
    /\ call' = [fn |-> "get_opportunities",
                feeds |-> feeds,
                raised |-> FALSE,
                result |-> get_opportunities(feeds)]
    /\ UNCHANGED <<foldVars, svcVars>>

CallGetSportOpportunitiesEndpoint(sp, feed) ==
    /\ call = NoCall
    /\ call' = [fn |-> "get_sport_opportunities_endpoint",
                sport |-> sp,
                feed |-> feed,
                raised |-> FALSE,
                result |-> get_sport_opportunities_endpoint(sp, feed)]
    /\ UNCHANGED <<foldVars, svcVars>>

NextFeed ==
    \/ call = NoCall /\ \E feeds \in AllFeeds : CallGetOpportunities(feeds)
    \/ call = NoCall /\ \E sp \in SportSet, feed \in SportFeeds \cup {BigFeed} :
                            CallGetSportOpportunitiesEndpoint(sp, feed)

SpecFeed == Init /\ [][NextFeed]_vars

---------------------------------------------------------------------------
(* The statistical model.  Two classes carry it, both named                *)
(* FantasyProbabilityCalculator: the one of                                *)
(* src/fantasy_probability_calculator.py (team_*, player_prop) and the one *)
(* of src/probability_calculator.py (game_outcome, point_differential,     *)
(* total_points, player_performance).                                      *)
(*                                                                         *)
(* A z-score (line - expected) / sqrt(variance) is held exactly, as its    *)
(* sign and its square.  erf is tabulated: erf(sqrt(u)), u = z^2 / 2, at    *)
(* eight points up to the z-score 3, linear in between and 1 from          *)
(* u = 15/2 on.  The table is 0 at 0, odd, strictly increasing up to 1,    *)
(* and within 0.05 of erf.                                                 *)

Sign(n) == IF n > 0 THEN 1 ELSE IF n < 0 THEN -1 ELSE 0

RMin(a, b) == IF RLe(a, b) THEN a ELSE b

RMax(a, b) == IF RLe(a, b) THEN b ELSE a

\* (line - expected) / np.sqrt(variance), variance > 0
z_score(line, expected, variance) ==
    LET d == RSub(line, expected)
    IN  [sign |-> Sign(d[1]), sq |-> RDiv(RMul(d, d), variance)]

ErfKnots ==
    << [u |-> <<0, 1>>, erf |-> <<0, 1>>],
       [u |-> <<1, 128>>, erf |-> <<3, 32>>],
       [u |-> <<1, 32>>, erf |-> <<3, 16>>],
       [u |-> <<1, 8>>, erf |-> <<3, 8>>],
       [u |-> <<1, 4>>, erf |-> <<17, 32>>],
       [u |-> <<1, 2>>, erf |-> <<21, 32>>],
       [u |-> <<1, 1>>, erf |-> <<27, 32>>],
       [u |-> <<2, 1>>, erf |-> <<15, 16>>],
       [u |-> <<9, 2>>, erf |-> <<125, 128>>],
       [u |-> <<15, 2>>, erf |-> <<1, 1>>] >>

\* erf(sqrt(u)), u >= 0
erf_sqrt(u) ==
    IF RLe(ErfKnots[Len(ErfKnots)].u, u) THEN <<1, 1>>
    ELSE LET k == CHOOSE i \in 1..Len(ErfKnots) - 1 :
                      RLe(ErfKnots[i].u, u) /\ RLt(u, ErfKnots[i + 1].u)
             lo == ErfKnots[k]
             hi == ErfKnots[k + 1]
         IN  RAdd(lo.erf,
                  RMul(RSub(u, lo.u),
                       RDiv(RSub(hi.erf, lo.erf), RSub(hi.u, lo.u))))

\* math.erf(x / np.sqrt(2)) for the z-score x
erf_of(z) == RMul(<<z.sign, 1>>, erf_sqrt(RDiv(z.sq, <<2, 1>>)))

\* _normal_cdf: 0.5 * (1 + math.erf(x / np.sqrt(2)))
normal_cdf(z) == RMul(<<1, 2>>, RAdd(<<1, 1>>, erf_of(z)))

---------------------------------------------------------------------------
(* src/fantasy_probability_calculator.py: the team calculations.           *)

SPORT_STATS ==
    [s \in {"nfl", "nba", "nhl", "mlb", "ncaaf", "ncaam"} |->
        CASE s = "nfl" ->
               [avg_points |-> <<23, 1>>, variance |-> <<12, 1>>, home_advantage |-> <<5, 2>>]
          [] s = "nba" ->
               [avg_points |-> <<112, 1>>, variance |-> <<15, 1>>, home_advantage |-> <<3, 1>>]
          [] s = "nhl" ->
               [avg_points |-> <<14, 5>>, variance |-> <<3, 2>>, home_advantage |-> <<1, 5>>]
          [] s = "mlb" ->
               [avg_points |-> <<9, 2>>, variance |-> <<5, 2>>, home_advantage |-> <<3, 10>>]
          [] s = "ncaaf" ->
               [avg_points |-> <<28, 1>>, variance |-> <<14, 1>>, home_advantage |-> <<7, 2>>]
          [] s = "ncaam" ->
               [avg_points |-> <<72, 1>>, variance |-> <<12, 1>>, home_advantage |-> <<4, 1>>]]

\* self.SPORT_STATS.get(sport, self.SPORT_STATS["nfl"])
sport_stats(sp) == IF sp \in DOMAIN SPORT_STATS THEN SPORT_STATS[sp] ELSE SPORT_STATS["nfl"]

\* sum(recent_form) of a list of booleans
RECURSIVE CountTrue(_)
CountTrue(form) ==
    IF Len(form) = 0 THEN 0
    ELSE (IF form[1] THEN 1 ELSE 0) + CountTrue(Tail(form))

\* _calculate_team_strength
calculate_team_strength(team_stats, sp, is_home) ==
    LET s0 == team_stats.win_percentage
        s1 == IF Len(team_stats.recent_form) > 0
              THEN RAdd(RMul(s0, <<3, 5>>),
                        RMul(Rat(CountTrue(team_stats.recent_form),
                                 Len(team_stats.recent_form)), <<2, 5>>))
              ELSE s0
        split == IF is_home THEN team_stats.home_record ELSE team_stats.away_record
        s2 == IF split[1] + split[2] > 0
              THEN RAdd(RMul(s1, <<7, 10>>),
                        RMul(Rat(split[1], split[1] + split[2]), <<3, 10>>))
              ELSE s1
        point_diff == RSub(team_stats.avg_points_for, team_stats.avg_points_against)
        normalized_diff == RDiv(point_diff, RMul(sport_stats(sp).avg_points, <<2, 1>>))
        s3 == RAdd(s2, RMul(normalized_diff, <<1, 5>>))
    IN  RMax(<<0, 1>>, RMin(<<1, 1>>, s3))

\* _calculate_confidence(home_stats, away_stats)
calculate_confidence(home_stats, away_stats) ==
    LET home_games == home_stats.wins + home_stats.losses
        away_games == away_stats.wins + away_stats.losses
    IN  IF home_games = 0 \/ away_games = 0 THEN <<3, 10>>
        ELSE RMin(<<1, 1>>, RDiv(Rat(home_games + away_games, 2), <<20, 1>>))

calculate_team_moneyline_probability(game_context) ==
    LET home_strength ==
            calculate_team_strength(game_context.home_team_stats, game_context.sport, TRUE)
        away_strength ==
            calculate_team_strength(game_context.away_team_stats, game_context.sport, FALSE)
        total_strength == RAdd(home_strength, away_strength)
    IN  IF total_strength[1] = 0
        THEN [home_win_prob |-> <<1, 2>>, away_win_prob |-> <<1, 2>>]
        ELSE [home_win_prob |-> RDiv(home_strength, total_strength),
              away_win_prob |-> RDiv(away_strength, total_strength),
              confidence |-> calculate_confidence(game_context.home_team_stats,
                                                  game_context.away_team_stats)]

\* expected_margin of calculate_team_spread_probability
team_expected_margin(game_context) ==
    LET home_stats == game_context.home_team_stats
        away_stats == game_context.away_team_stats
        home_blend == RDiv(RAdd(home_stats.avg_points_for, away_stats.avg_points_against),
                           <<2, 1>>)
        away_expected == RDiv(RAdd(away_stats.avg_points_for, home_stats.avg_points_against),
                              <<2, 1>>)
        home_expected == IF ~game_context.is_neutral_site
                         THEN RAdd(home_blend, sport_stats(game_context.sport).home_advantage)
                         ELSE home_blend
    IN  RSub(home_expected, away_expected)

calculate_team_spread_probability(game_context, spread) ==
    LET expected_margin == team_expected_margin(game_context)
        sd == sport_stats(game_context.sport).variance
        variance == RMul(sd, sd)
        home_covers_prob == RSub(<<1, 1>>, normal_cdf(z_score(spread, expected_margin, variance)))
    IN  [home_covers_prob |-> home_covers_prob,
         away_covers_prob |-> RSub(<<1, 1>>, home_covers_prob),
         expected_margin |-> expected_margin,
         confidence |-> calculate_confidence(game_context.home_team_stats,
                                             game_context.away_team_stats)]

calculate_team_total_probability(game_context, total) ==
    LET home_stats == game_context.home_team_stats
        away_stats == game_context.away_team_stats
        home_expected == RDiv(RAdd(home_stats.avg_points_for, away_stats.avg_points_against),
                              <<2, 1>>)
        away_expected == RDiv(RAdd(away_stats.avg_points_for, home_stats.avg_points_against),
                              <<2, 1>>)
        expected_total == RAdd(home_expected, away_expected)
        sd == sport_stats(game_context.sport).variance
        variance == RMul(RMul(sd, sd), <<2, 1>>)
        over_prob == RSub(<<1, 1>>, normal_cdf(z_score(total, expected_total, variance)))
    IN  [over_prob |-> over_prob,
         under_prob |-> RSub(<<1, 1>>, over_prob),
         expected_total |-> expected_total,
         confidence |-> calculate_confidence(game_context.home_team_stats,
                                             game_context.away_team_stats)]

---------------------------------------------------------------------------
(* src/fantasy_probability_calculator.py: the player props.  None is       *)
(* [found |-> FALSE].  A stats dict is a sequence of [key, value] entries, *)
(* a value being [ok, v]: ok is whether float(value) succeeds, v is the    *)
(* number it gives.                                                        *)

None == [found |-> FALSE]

Some(v) == [found |-> TRUE, v |-> v]

\* The rows of PLAYER_PROP_MAPPINGS that the inputs of the model reach.
PLAYER_PROP_MAPPINGS ==
    [l \in {"nfl", "nba", "nhl"} |->
        CASE l = "nfl" ->
               [p \in {"passing_yards"} |-> <<"PASSING_YARDS", "PYDS", "passYds">>]
          [] l = "nba" ->
               [p \in {"points", "steals"} |->
                   IF p = "points" THEN <<"POINTS", "PTS", "points">>
                   ELSE <<"STEALS", "STL", "steals">>]
          [] l = "nhl" ->
               [p \in {"goals", "points"} |->
                   IF p = "goals" THEN <<"GOALS", "G", "goals">>
                   ELSE <<"POINTS", "PTS", "points">>]]

\* str.upper() on the keys that occur
UpperKey(k) ==
    CASE k = "passYds" -> "PASSYDS"
      [] k = "passyds" -> "PASSYDS"
      [] k = "points" -> "POINTS"
      [] k = "pts" -> "PTS"
      [] k = "steals" -> "STEALS"
      [] k = "goals" -> "GOALS"
      [] k = "home" -> "HOME"
      [] k = "away" -> "AWAY"
      [] OTHER -> k

\* The first entry, in dict order, whose key matches key_variant without
\* regard to case and whose value float() accepts.
case_insensitive_match(stats, key_variant) ==
    LET hits == {j \in 1..Len(stats) :
                    UpperKey(stats[j].key) = UpperKey(key_variant) /\ stats[j].value.ok}
    IN  IF hits = {} THEN None
        ELSE Some(stats[CHOOSE j \in hits : \A h \in hits : j <= h].value.v)

\* The loop of _extract_stat_value from variant i on.  A variant that is a
\* key of stats with a value float() rejects goes to the next variant.
RECURSIVE extract_from(_, _, _)
extract_from(stats, variants, i) ==
    IF i > Len(variants) THEN None
    ELSE IF HasKey(stats, variants[i])
    THEN IF Lookup(stats, variants[i]).ok
         THEN Some(Lookup(stats, variants[i]).v)
         ELSE extract_from(stats, variants, i + 1)
    ELSE IF case_insensitive_match(stats, variants[i]).found
    THEN case_insensitive_match(stats, variants[i])
    ELSE extract_from(stats, variants, i + 1)

\* _extract_stat_value
extract_stat_value(stats, league, prop_type) ==
    IF league \notin DOMAIN PLAYER_PROP_MAPPINGS THEN None
    ELSE IF prop_type \notin DOMAIN PLAYER_PROP_MAPPINGS[league] THEN None
    ELSE extract_from(stats, PLAYER_PROP_MAPPINGS[league][prop_type], 1)

\* player_team.upper() in game_context.home_team.upper(), on the names that
\* occur
upper_in(abbrev, name) ==
    <<abbrev, name>> \in {<<"DAL", "Dallas Cowboys">>, <<"PHI", "Philadelphia Eagles">>,
                          <<"home", "Home Team">>, <<"away", "Away Team">>}

\* _calculate_matchup_adjustment of fantasy_probability_calculator.py
calculate_matchup_adjustment(league, prop_type, player_team, game_context) ==
    LET is_home_player ==
            \/ UpperKey(player_team) = UpperKey(game_context.home_team_stats.team_id)
            \/ upper_in(player_team, game_context.home_team)
        opponent_stats == IF is_home_player THEN game_context.away_team_stats
                          ELSE game_context.home_team_stats
        against == opponent_stats.avg_points_against
    IN  IF league \in {"nfl", "ncaaf"}
        THEN IF prop_type = "passing_yards" THEN RSub(<<0, 1>>, RMul(against, <<1, 20>>))
             ELSE IF prop_type = "rushing_yards" THEN RSub(<<0, 1>>, RMul(against, <<3, 100>>))
             ELSE IF prop_type = "receiving_yards" THEN RSub(<<0, 1>>, RMul(against, <<1, 25>>))
             ELSE <<0, 1>>
        ELSE IF league \in {"nba", "ncaam"}
        THEN IF prop_type = "points" THEN RSub(<<0, 1>>, RMul(against, <<1, 50>>))
             ELSE IF prop_type = "rebounds"
             THEN RMul(RSub(opponent_stats.avg_points_for, against), <<1, 100>>)
             ELSE <<0, 1>>
        ELSE IF league = "nhl"
        THEN IF prop_type \in {"goals", "assists", "points"}
             THEN RSub(<<0, 1>>, RMul(against, <<1, 10>>))
             ELSE <<0, 1>>
        ELSE IF league = "mlb"
        THEN IF prop_type \in {"hits", "home_runs", "runs"}
             THEN RSub(<<0, 1>>, RMul(against, <<1, 20>>))
             ELSE <<0, 1>>
        ELSE <<0, 1>>

base_variance_pct(league) ==
    CASE league = "nfl" -> <<1, 4>>
      [] league = "nba" -> <<1, 5>>
      [] league = "nhl" -> <<3, 10>>
      [] league = "mlb" -> <<1, 4>>
      [] league = "ncaaf" -> <<3, 10>>
      [] league = "ncaam" -> <<11, 50>>
      [] OTHER -> <<1, 4>>

\* _calculate_player_variance
calculate_player_variance(league, prop_type, expected) ==
    LET scaled == RMul(expected, base_variance_pct(league))
        variance == RMul(scaled, scaled)
        adjusted == IF prop_type \in {"goals", "home_runs", "steals", "blocks", "saves"}
                    THEN RMul(variance, <<3, 2>>) ELSE variance
    IN  RMax(adjusted, <<1, 1>>)

\* A confidence that goes through np.sqrt is held exactly, as the number
\* a + s * sqrt(r) with s in {-1, 0, 1} and r >= 0.
Surd(a, s, r) == [a |-> a, s |-> s, r |-> r]

Exactly(a) == Surd(a, 0, <<0, 1>>)

OneMinusSqrt(r) == Surd(<<1, 1>>, -1, r)

SqrtOf(r) == IF r[1] = 0 THEN Exactly(<<0, 1>>) ELSE Surd(<<0, 1>>, 1, r)

\* _calculate_player_confidence: max(0.0, min(1.0, 1.0 - sqrt(variance) /
\* expected_value)), 0.0 at expected_value == 0.  A negative expected value
\* makes the quotient negative and the result 1.0.
calculate_player_confidence(variance, expected) ==
    IF expected[1] = 0 THEN Exactly(<<0, 1>>)
    ELSE IF expected[1] < 0 THEN Exactly(<<1, 1>>)
    ELSE LET cv_squared == RDiv(variance, RMul(expected, expected))
         IN  IF RLe(<<1, 1>>, cv_squared) THEN Exactly(<<0, 1>>)
             ELSE OneMinusSqrt(cv_squared)

\* get_player_last_game_stats: what the three calls of the ESPN scraper give,
\* or None when one of them raises (ESPNError or any other exception).
get_player_last_game_stats(espn) ==
    IF espn.raises # "no" THEN None
    ELSE [found |-> TRUE, team_abbrev |-> espn.team_abbrev, stats |-> espn.stats]

\* Faulty variant: a missing stat category is read as a last-game value of 0.
calculate_player_prop_probability_zero(league, espn, prop_type, line, game_context) ==
    LET player_stats == get_player_last_game_stats(espn)
        neutral == [over_prob |-> <<1, 2>>, under_prob |-> <<1, 2>>,
                    expected_value |-> line, confidence |-> Exactly(<<0, 1>>)]
    IN  IF ~player_stats.found THEN neutral
        ELSE
            LET extracted == extract_stat_value(player_stats.stats, league, prop_type)
                stat_value == IF extracted.found THEN extracted.v ELSE <<0, 1>>
                expected ==
                    IF game_context.found
                    THEN RAdd(stat_value,
                              calculate_matchup_adjustment(league, prop_type,
                                  player_stats.team_abbrev, game_context.v))
                    ELSE stat_value
                variance == calculate_player_variance(league, prop_type, expected)
                over_prob == RSub(<<1, 1>>, normal_cdf(z_score(line, expected, variance)))
            IN  [over_prob |-> over_prob,
                 under_prob |-> RSub(<<1, 1>>, over_prob),
                 expected_value |-> expected,
                 last_game_value |-> stat_value,
                 confidence |-> calculate_player_confidence(variance, expected),
                 variance |-> variance]

calculate_player_prop_probability(league, espn, prop_type, line, game_context) ==
    LET player_stats == get_player_last_game_stats(espn)
        neutral == [over_prob |-> <<1, 2>>, under_prob |-> <<1, 2>>,
                    expected_value |-> line, confidence |-> Exactly(<<0, 1>>)]
    IN  IF ~player_stats.found THEN neutral
        ELSE
            LET stat_value == extract_stat_value(player_stats.stats, league, prop_type)
            IN  IF ~stat_value.found THEN neutral
                ELSE
                    LET expected ==
                            IF game_context.found
                            THEN RAdd(stat_value.v,
                                      calculate_matchup_adjustment(league, prop_type,
                                          player_stats.team_abbrev, game_context.v))
                            ELSE stat_value.v
                        variance == calculate_player_variance(league, prop_type, expected)
                        over_prob ==
                            RSub(<<1, 1>>, normal_cdf(z_score(line, expected, variance)))
                    IN  [over_prob |-> over_prob,
                         under_prob |-> RSub(<<1, 1>>, over_prob),
                         expected_value |-> expected,
                         last_game_value |-> stat_value.v,
                         confidence |-> calculate_player_confidence(variance, expected),
                         variance |-> variance]

---------------------------------------------------------------------------
(* src/probability_calculator.py.  Its _normal_cdf calls np.math.erf;      *)
(* np.math is the standard math module in NumPy before 2.0 and is absent   *)
(* from 2.0 on, where the call raises AttributeError.  np_math says which  *)
(* NumPy is installed.  self.models is empty (train_models returns before  *)
(* storing a model, _get_historical_training_data being empty), so the     *)
(* statistical branch is always the one taken.  The confidence of the game *)
(* outcome and of the point differential, min(np.std(features) * 0.1, 1),  *)
(* plays no part in the probabilities and is not carried.                  *)

LastN(s, n) == SubSeq(s, IF Len(s) > n THEN Len(s) - n + 1 ELSE 1, Len(s))

\* _get_conference_strength
get_conference_strength(conference) ==
    CASE conference = "SEC" -> <<1, 1>>
      [] conference = "Big Ten" -> <<19, 20>>
      [] conference = "ACC" -> <<9, 10>>
      [] conference = "Big 12" -> <<17, 20>>
      [] conference = "Pac-12" -> <<4, 5>>
      [] conference = "AAC" -> <<7, 10>>
      [] conference = "Mountain West" -> <<13, 20>>
      [] conference = "MAC" -> <<3, 5>>
      [] conference = "Sun Belt" -> <<11, 20>>
      [] conference = "C-USA" -> <<1, 2>>
      [] OTHER -> <<3, 4>>

\* _calculate_weather_factor
calculate_weather_factor(weather) ==
    IF weather.temperature < 40 THEN <<1, 50>>
    ELSE IF weather.wind_speed > 15 THEN <<1, 100>>
    ELSE <<0, 1>>

\* _apply_ncaa_factors; a ranking of 0 stands for None
apply_ncaa_factors(home_strength, away_strength, game_context) ==
    LET home_field_advantage ==
            IF game_context.sport = "ncaaf" THEN <<7, 100>>
            ELSE IF game_context.sport = "ncaab" THEN <<1, 25>>
            ELSE <<1, 20>>
        h1 == RAdd(home_strength, home_field_advantage)
        home_ranking == game_context.home_team_stats.ranking
        away_ranking == game_context.away_team_stats.ranking
        h2 == IF home_ranking # 0 /\ away_ranking # 0
              THEN RAdd(h1, RMul(<<away_ranking - home_ranking, 1>>, <<1, 50>>))
              ELSE h1
        conference_strength ==
            get_conference_strength(game_context.home_team_stats.conference)
        nudged == game_context.conference_game /\ conference_strength[1] # 0
        h3 == IF nudged THEN RAdd(h2, RMul(conference_strength, <<1, 100>>)) ELSE h2
        a3 == IF nudged THEN RAdd(away_strength, RMul(conference_strength, <<1, 100>>))
              ELSE away_strength
        h4 == IF game_context.rivalry_game THEN RAdd(h3, <<3, 100>>) ELSE h3
        h5 == IF game_context.sport = "ncaaf" /\ game_context.weather.found
              THEN RAdd(h4, calculate_weather_factor(game_context.weather.v))
              ELSE h4
    IN  <<h5, a3>>

\* sum(recent_form[-5:]) / 5
recent_win_rate(recent_form) == Rat(CountTrue(LastN(recent_form, 5)), 5)

\* The two strengths of _calculate_statistical_probability, defined when
\* neither split record is empty.
statistical_strengths(game_context) ==
    LET home_stats == game_context.home_team_stats
        away_stats == game_context.away_team_stats
        home_strength ==
            RAdd(RAdd(RMul(home_stats.win_percentage, <<2, 5>>),
                      RMul(Rat(home_stats.home_record[1],
                               home_stats.home_record[1] + home_stats.home_record[2]),
                           <<3, 10>>)),
                 RMul(recent_win_rate(home_stats.recent_form), <<3, 10>>))
        away_strength ==
            RAdd(RAdd(RMul(away_stats.win_percentage, <<2, 5>>),
                      RMul(Rat(away_stats.away_record[1],
                               away_stats.away_record[1] + away_stats.away_record[2]),
                           <<3, 10>>)),
                 RMul(recent_win_rate(away_stats.recent_form), <<3, 10>>))
    IN  apply_ncaa_factors(home_strength, away_strength, game_context)

\* The divisions of _calculate_statistical_probability that raise
\* ZeroDivisionError: a split record of no games, a total strength of zero.
statistical_probability_raises(game_context) ==
    \/ game_context.home_team_stats.home_record[1]
         + game_context.home_team_stats.home_record[2] = 0
    \/ game_context.away_team_stats.away_record[1]
         + game_context.away_team_stats.away_record[2] = 0
    \/ RAdd(statistical_strengths(game_context)[1],
            statistical_strengths(game_context)[2])[1] = 0

\* _calculate_statistical_probability, where it does not raise
calculate_statistical_probability(game_context) ==
    LET strengths == statistical_strengths(game_context)
        total_strength == RAdd(strengths[1], strengths[2])
    IN  <<RDiv(strengths[1], total_strength), RDiv(strengths[2], total_strength)>>

calculate_game_outcome_probability(game_context) ==
    IF statistical_probability_raises(game_context)
    THEN [home_win_probability |-> <<1, 2>>, away_win_probability |-> <<1, 2>>,
          confidence |-> <<0, 1>>]
    ELSE [home_win_probability |-> calculate_statistical_probability(game_context)[1],
          away_win_probability |-> calculate_statistical_probability(game_context)[2]]

\* home_field_advantage of _calculate_point_differential_statistical
point_differential_advantage(sp) ==
    IF sp = "ncaaf" THEN <<7, 2>>
    ELSE IF sp = "ncaab" THEN <<5, 2>>
    ELSE <<3, 1>>

\* expected_margin of _calculate_point_differential_statistical
point_differential_expected_margin(game_context) ==
    LET home_stats == game_context.home_team_stats
        away_stats == game_context.away_team_stats
        margin == RSub(RSub(home_stats.avg_points_for, home_stats.avg_points_against),
                       RSub(away_stats.avg_points_for, away_stats.avg_points_against))
        m1 == RAdd(margin, point_differential_advantage(game_context.sport))
        m2 == IF game_context.conference_game THEN RAdd(m1, <<1, 2>>) ELSE m1
    IN  IF game_context.rivalry_game THEN RAdd(m2, <<1, 1>>) ELSE m2

\* variance of _calculate_point_differential_statistical
point_differential_variance(game_context) ==
    IF game_context.sport = "ncaaf" THEN <<16, 1>>
    ELSE IF game_context.sport = "ncaab" THEN <<12, 1>>
    ELSE <<14, 1>>

\* _calculate_point_differential_statistical, np.math being there
calculate_point_differential_statistical(game_context, spread) ==
    RSub(<<1, 1>>,
         normal_cdf(z_score(spread, point_differential_expected_margin(game_context),
                            point_differential_variance(game_context))))

\* _adjust_for_spread changes the two TeamStats objects of the caller's
\* context in place.  The GameContext it returns is a new object around the
\* same two TeamStats and feeds only the confidence; what is kept here is
\* the caller's context as the call leaves it.
adjust_for_spread(game_context, spread) ==
    [game_context EXCEPT
        !.home_team_stats.avg_points_for = RSub(@, RDiv(spread, <<2, 1>>)),
        !.away_team_stats.avg_points_for = RAdd(@, RDiv(spread, <<2, 1>>))]

\* calculate_point_differential_probability: the result, and the caller's
\* context after the call.  _calculate_point_differential_statistical reads
\* the caller's context after _adjust_for_spread has changed it.
calculate_point_differential_probability(game_context, spread, np_math) ==
    LET adjusted == adjust_for_spread(game_context, spread)
        probability == calculate_point_differential_statistical(adjusted, spread)
    IN  [game_context |-> adjusted,
         result |->
            IF ~np_math
            THEN [home_covers_probability |-> <<1, 2>>,
                  away_covers_probability |-> <<1, 2>>,
                  confidence |-> <<0, 1>>]
            ELSE [home_covers_probability |-> probability,
                  away_covers_probability |-> RSub(<<1, 1>>, probability)]]

\* _calculate_expected_total
calculate_expected_total(game_context) ==
    LET home_stats == game_context.home_team_stats
        away_stats == game_context.away_team_stats
        home_expected == RDiv(RAdd(home_stats.avg_points_for, away_stats.avg_points_against),
                              <<2, 1>>)
        away_expected == RDiv(RAdd(away_stats.avg_points_for, home_stats.avg_points_against),
                              <<2, 1>>)
        total == RAdd(home_expected, away_expected)
    IN  IF game_context.sport = "ncaaf" THEN RMul(total, <<21, 20>>)
        ELSE IF game_context.sport = "ncaab" /\ game_context.conference_game
        THEN RMul(total, <<49, 50>>)
        ELSE total

\* _calculate_scoring_variance
calculate_scoring_variance(game_context) ==
    IF game_context.sport = "ncaaf" THEN <<30, 1>>
    ELSE IF game_context.sport = "ncaab" THEN <<20, 1>>
    ELSE <<25, 1>>

\* calculate_total_points_probability; its confidence is
\* min(abs(z_score) * 0.1, 1.0)
calculate_total_points_probability(game_context, total, np_math) ==
    LET expected_total == calculate_expected_total(game_context)
        z == z_score(total, expected_total, calculate_scoring_variance(game_context))
        over_probability == RSub(<<1, 1>>, normal_cdf(z))
    IN  IF ~np_math
        THEN [over_probability |-> <<1, 2>>, under_probability |-> <<1, 2>>,
              confidence |-> Exactly(<<0, 1>>)]
        ELSE [over_probability |-> over_probability,
              under_probability |-> RSub(<<1, 1>>, over_probability),
              expected_total |-> expected_total,
              confidence |-> SqrtOf(RMin(RMul(z.sq, <<1, 100>>), <<1, 1>>))]

\* The prop types of stat_mapping in _get_performance_stat_value; each maps
\* to the stat key of the same name.
stat_mapping ==
    {"passing_yards", "passing_tds", "rushing_yards", "rushing_tds", "receiving_yards",
     "receiving_tds", "receptions", "points", "rebounds", "assists", "steals", "blocks"}

\* _get_performance_stat_value; the values of a PlayerStats.stats dict are
\* Some(number) or None
get_performance_stat_value(player_stats, prop_type) ==
    IF prop_type \in stat_mapping /\ HasKey(player_stats.stats, prop_type)
    THEN Lookup(player_stats.stats, prop_type)
    ELSE None

\* np.var of a non-empty list: the mean of the squared distances to the mean
np_var(xs) ==
    LET mean == RDiv(RSum(xs), <<Len(xs), 1>>)
    IN  RDiv(RSum([i \in 1..Len(xs) |-> RMul(RSub(xs[i], mean), RSub(xs[i], mean))]),
             <<Len(xs), 1>>)

\* _calculate_player_expected_performance
calculate_player_expected_performance(player_stats, game_context) ==
    LET recent_form == player_stats.recent_form
        season_average == player_stats.season_average
        base_value ==
            IF Len(recent_form) > 0
            THEN RAdd(RMul(season_average, <<3, 5>>),
                      RMul(RDiv(RSum(LastN(recent_form, 5)),
                                <<Min(Len(recent_form), 5), 1>>),
                           <<2, 5>>))
            ELSE season_average
        venue_average == IF game_context.home_team_stats.is_home_team
                         THEN player_stats.home_average
                         ELSE player_stats.away_average
        home_away_factor == IF season_average[1] > 0
                            THEN RDiv(venue_average, season_average)
                            ELSE <<1, 1>>
    IN  RMul(base_value, home_away_factor)

\* _calculate_player_performance_variance
calculate_player_performance_variance(player_stats, prop_type) ==
    LET variance == IF Len(player_stats.recent_form) >= 3
                    THEN np_var(player_stats.recent_form)
                    ELSE RMul(player_stats.season_average, <<1, 5>>)
        adjusted ==
            IF player_stats.sport = "ncaaf"
            THEN IF prop_type \in {"passing_yards", "rushing_yards", "receiving_yards"}
                 THEN RMul(variance, <<6, 5>>) ELSE variance
            ELSE IF player_stats.sport = "ncaab"
            THEN IF prop_type \in {"points", "rebounds", "assists"}
                 THEN RMul(variance, <<4, 5>>) ELSE variance
            ELSE variance
    IN  RMax(adjusted, <<1, 1>>)

\* _calculate_matchup_adjustment of probability_calculator.py;
\* team_conference is player_stats.team_id.split('_')[0]
performance_matchup_adjustment(player_stats, game_context, prop_type) ==
    LET against == game_context.away_team_stats.avg_points_against
        defense ==
            IF game_context.sport = "ncaaf"
            THEN IF prop_type = "passing_yards" THEN RSub(<<0, 1>>, RMul(against, <<1, 10>>))
                 ELSE IF prop_type = "rushing_yards"
                 THEN RSub(<<0, 1>>, RMul(against, <<1, 20>>))
                 ELSE <<0, 1>>
            ELSE IF game_context.sport = "ncaab"
            THEN IF prop_type = "points" THEN RSub(<<0, 1>>, RMul(against, <<1, 50>>))
                 ELSE <<0, 1>>
            ELSE <<0, 1>>
    IN  IF game_context.conference_game
        THEN RAdd(defense,
                  RMul(get_conference_strength(player_stats.team_conference), <<1, 10>>))
        ELSE defense

\* _calculate_player_performance_confidence
calculate_player_performance_confidence(player_stats) ==
    LET base == IF player_stats.games_played >= 10 THEN <<7, 10>>
                ELSE IF player_stats.games_played >= 5 THEN <<3, 5>>
                ELSE <<1, 2>>
        consistency_factor ==
            IF player_stats.season_average[1] > 0
            THEN RMax(<<0, 1>>,
                      RSub(<<1, 1>>, RDiv(np_var(player_stats.recent_form),
                                          player_stats.season_average)))
            ELSE <<0, 1>>
        confidence == IF Len(player_stats.recent_form) >= 3
                      THEN RAdd(base, RMul(consistency_factor, <<3, 10>>))
                      ELSE base
    IN  RMin(confidence, <<1, 1>>)

\* calculate_player_performance_probability.  player_stats None raises
\* AttributeError at its first use, inside the try.
calculate_player_performance_probability(player_stats, prop_type, line, game_context, np_math) ==
    LET neutral == [over_probability |-> <<1, 2>>, under_probability |-> <<1, 2>>,
                    confidence |-> <<0, 1>>]
    IN  IF ~player_stats.found THEN neutral
        ELSE IF ~get_performance_stat_value(player_stats, prop_type).found THEN neutral
        ELSE IF ~np_math THEN neutral
        ELSE
            LET matchup_adjustment ==
                    performance_matchup_adjustment(player_stats, game_context, prop_type)
                expected ==
                    RAdd(calculate_player_expected_performance(player_stats, game_context),
                         matchup_adjustment)
                variance == calculate_player_performance_variance(player_stats, prop_type)
                over_probability ==
                    RSub(<<1, 1>>, normal_cdf(z_score(line, expected, variance)))
            IN  [over_probability |-> over_probability,
                 under_probability |-> RSub(<<1, 1>>, over_probability),
                 expected_value |-> expected,
                 confidence |-> calculate_player_performance_confidence(player_stats),
                 matchup_adjustment |-> matchup_adjustment]

---------------------------------------------------------------------------
(* The statistical model as calls: each operation applied once to inputs   *)
(* drawn from the sets below, its arguments and result kept in call.  One  *)
(* record shape carries the TeamStats and the GameContext of both modules. *)

TeamStats(team_id, team_name, wins, losses, win_percentage, home_record, away_record, recent_form, avg_points_for, avg_points_against, conference, ranking, is_home_team) ==
    [team_id |-> team_id, team_name |-> team_name, wins |-> wins, losses |-> losses,
     win_percentage |-> win_percentage, home_record |-> home_record,
     away_record |-> away_record, recent_form |-> recent_form,
     avg_points_for |-> avg_points_for, avg_points_against |-> avg_points_against,
     conference |-> conference, ranking |-> ranking, is_home_team |-> is_home_team]

\* The two teams of main() in fantasy_probability_calculator.py
Dallas ==
    TeamStats("DAL", "Dallas Cowboys", 10, 3, <<769, 1000>>, <<0, 0>>, <<0, 0>>, <<>>,
              <<57, 2>>, <<101, 5>>, "none", 0, TRUE)

Philadelphia ==
    TeamStats("PHI", "Philadelphia Eagles", 9, 4, <<173, 250>>, <<0, 0>>, <<0, 0>>, <<>>,
              <<134, 5>>, <<221, 10>>, "none", 0, FALSE)

\* The two teams of the tests in test.py
HomeTeam ==
    TeamStats("home", "Home Team", 10, 6, <<5, 8>>, <<6, 2>>, <<4, 4>>,
              <<TRUE, TRUE, FALSE, TRUE, TRUE>>, <<25, 1>>, <<22, 1>>, "none", 0, TRUE)

AwayTeam ==
    TeamStats("away", "Away Team", 8, 8, <<1, 2>>, <<4, 4>>, <<4, 4>>,
              <<TRUE, FALSE, TRUE, FALSE, TRUE>>, <<23, 1>>, <<24, 1>>, "none", 0, TRUE)

\* TeamStats with the defaults of its dataclass
Expansion ==
    TeamStats("NEW", "Expansion", 0, 0, <<1, 2>>, <<0, 0>>, <<0, 0>>, <<>>,
              <<0, 1>>, <<0, 1>>, "none", 0, TRUE)

\* A ranked team that has lost every game
Winless(ranking) ==
    TeamStats("W" \o ToString(ranking), "Winless", 0, 8, <<0, 1>>, <<0, 8>>, <<0, 8>>,
              <<FALSE, FALSE, FALSE, FALSE, FALSE>>, <<10, 1>>, <<30, 1>>, "SEC",
              ranking, TRUE)

Rankings == {1, 3, 25}

Teams == {Dallas, Philadelphia, HomeTeam, AwayTeam, Expansion}
             \cup {Winless(r) : r \in Rankings}

GameContext(home_stats, away_stats, sp, is_neutral_site, weather, rivalry_game, conference_game) ==
    [home_team |-> home_stats.team_name, away_team |-> away_stats.team_name,
     home_team_stats |-> home_stats, away_team_stats |-> away_stats, sport |-> sp,
     is_neutral_site |-> is_neutral_site, weather |-> weather,
     rivalry_game |-> rivalry_game, conference_game |-> conference_game]

Matchups == {m \in Teams \X Teams : m[1].team_id # m[2].team_id}

\* Contexts of fantasy_probability_calculator.py
TeamContexts ==
    {GameContext(m[1], m[2], sp, n, None, FALSE, FALSE) :
        m \in Matchups, sp \in {"nfl", "nba", "ncaaf", "xfl"}, n \in BOOLEAN}

Cold == Some([temperature |-> 30, wind_speed |-> 0])

\* Contexts of probability_calculator.py
GameContexts ==
    {GameContext(m[1], m[2], sp, FALSE, w, r, c) :
        m \in Matchups, sp \in {"ncaaf", "ncaab", "nfl"}, w \in {None, Cold},
        r \in BOOLEAN, c \in BOOLEAN}

\* The weather plays a part in the game outcome only.
SpreadContexts == {gc \in GameContexts : ~gc.weather.found}

\* The contexts whose teams score whole numbers of points on average; with
\* them the factors 1.05 and 0.98 of _calculate_expected_total leave the
\* exact z-score within 32-bit integers.
TotalContexts ==
    {gc \in SpreadContexts :
        {gc.home_team_stats, gc.away_team_stats} \cap {Dallas, Philadelphia} = {}}

Spreads == {<<-7, 2>>, <<0, 1>>, <<3, 1>>, <<43, 10>>, <<6, 1>>}

Totals == {<<40, 1>>, <<47, 1>>, <<97, 2>>, <<244, 5>>}

\* What the ESPN scraper gives for a player
Raises(kind) == [raises |-> kind]

LastGame(team_abbrev, stats) ==
    [raises |-> "no", team_abbrev |-> team_abbrev, stats |-> stats]

Text == [ok |-> FALSE, v |-> <<0, 1>>]

Number(n, d) == [ok |-> TRUE, v |-> <<n, d>>]

BoxScores ==
    { <<>>,
      <<[key |-> "PYDS", value |-> Number(280, 1)]>>,
      <<[key |-> "passyds", value |-> Number(250, 1)]>>,
      <<[key |-> "PYDS", value |-> Text], [key |-> "passyds", value |-> Number(250, 1)]>>,
      <<[key |-> "pts", value |-> Text], [key |-> "PTS", value |-> Number(24, 1)],
        [key |-> "STL", value |-> Number(1, 1)]>>,
      <<[key |-> "G", value |-> Number(0, 1)]>>,
      <<[key |-> "REB", value |-> Number(10, 1)]>> }

EspnOutcomes ==
    {Raises("ESPNError"), Raises("Exception")}
        \cup {LastGame(a, s) : a \in {"home", "DAL"}, s \in BoxScores}

Leagues == {"nfl", "nba", "nhl", "xfl"}

\* A player prop on offer: its type and its line
PropMarkets ==
    { <<"passing_yards", <<551, 2>> >>, <<"passing_yards", <<280, 1>> >>,
      <<"points", <<47, 2>> >>, <<"points", <<24, 1>> >>,
      <<"steals", <<1, 2>> >>, <<"goals", <<1, 2>> >>,
      <<"fantasy_points", <<10, 1>> >> }

PropContexts ==
    {None, Some(GameContext(HomeTeam, AwayTeam, "nfl", FALSE, None, FALSE, FALSE))}

\* PlayerStats of models.py
PlayerStats(team_conference, sp, games_played, stats, recent_form, season_average, home_average, away_average) ==
    [found |-> TRUE, team_conference |-> team_conference, sport |-> sp,
     games_played |-> games_played, stats |-> stats, recent_form |-> recent_form,
     season_average |-> season_average, home_average |-> home_average,
     away_average |-> away_average]

Players ==
    { None,
      PlayerStats("SEC", "ncaaf", 10, <<[key |-> "passing_yards", value |-> Some(<<250, 1>>)]>>,
                  << <<240, 1>>, <<260, 1>>, <<250, 1>> >>, <<250, 1>>, <<260, 1>>,
                  <<240, 1>>),
      PlayerStats("ACC", "ncaab", 5,
                  <<[key |-> "points", value |-> Some(<<20, 1>>)],
                    [key |-> "steals", value |-> None]>>,
                  << <<20, 1>>, <<22, 1>> >>, <<20, 1>>, <<21, 1>>, <<19, 1>>),
      PlayerStats("MAC", "nfl", 0, <<[key |-> "points", value |-> Some(<<0, 1>>)]>>,
                  <<>>, <<0, 1>>, <<0, 1>>, <<0, 1>>) }

PerformanceMarkets ==
    { <<"passing_yards", <<551, 2>> >>, <<"passing_yards", <<1288, 5>> >>,
      <<"passing_tds", <<3, 2>> >>, <<"points", <<20, 1>> >>, <<"points", <<1, 2>> >>,
      <<"steals", <<1, 2>> >>, <<"fantasy_points", <<10, 1>> >> }

PerformanceContexts ==
    {GameContext(m[1], m[2], sp, FALSE, None, FALSE, c) :
        m \in {<<HomeTeam, AwayTeam>>, <<Philadelphia, AwayTeam>>},
        sp \in {"ncaaf", "ncaab", "nfl"}, c \in BOOLEAN}

CallTeamMoneyline(game_context) ==
    /\ call = NoCall
    /\ call' = [fn |-> "calculate_team_moneyline_probability",
                game_context |-> game_context,
                result |-> calculate_team_moneyline_probability(game_context)]
    /\ UNCHANGED <<foldVars, svcVars>>

CallTeamSpread(game_context, spread) ==
    /\ call = NoCall
    /\ call' = [fn |-> "calculate_team_spread_probability",
                game_context |-> game_context, line |-> spread,
                result |-> calculate_team_spread_probability(game_context, spread)]
    /\ UNCHANGED <<foldVars, svcVars>>

CallTeamTotal(game_context, total) ==
    /\ call = NoCall
    /\ call' = [fn |-> "calculate_team_total_probability",
                game_context |-> game_context, line |-> total,
                result |-> calculate_team_total_probability(game_context, total)]
    /\ UNCHANGED <<foldVars, svcVars>>

CallPlayerProp(league, espn, prop_type, line, game_context) ==
    /\ call = NoCall
    /\ call' = [fn |-> "calculate_player_prop_probability",
                league |-> league, espn |-> espn, prop_type |-> prop_type,
                line |-> line, game_context |-> game_context,
                result |-> calculate_player_prop_probability(league, espn, prop_type,
                                                             line, game_context)]
    /\ UNCHANGED <<foldVars, svcVars>>

CallGameOutcome(game_context) ==
    /\ call = NoCall
    /\ call' = [fn |-> "calculate_game_outcome_probability",
                game_context |-> game_context,
                result |-> calculate_game_outcome_probability(game_context)]
    /\ UNCHANGED <<foldVars, svcVars>>

\* after is the caller's context when the call has returned
CallPointDifferential(game_context, spread, np_math) ==
    /\ call = NoCall
    /\ call' = [fn |-> "calculate_point_differential_probability",
                game_context |-> game_context, line |-> spread, np_math |-> np_math,
                after |-> calculate_point_differential_probability(
                              game_context, spread, np_math).game_context,
                result |-> calculate_point_differential_probability(
                               game_context, spread, np_math).result]
    /\ UNCHANGED <<foldVars, svcVars>>

CallTotalPoints(game_context, total, np_math) ==
    /\ call = NoCall
    /\ call' = [fn |-> "calculate_total_points_probability",
                game_context |-> game_context, line |-> total, np_math |-> np_math,
                result |-> calculate_total_points_probability(game_context, total,
                                                              np_math)]
    /\ UNCHANGED <<foldVars, svcVars>>

CallPlayerPerformance(player_stats, prop_type, line, game_context, np_math) ==
    /\ call = NoCall
    /\ call' = [fn |-> "calculate_player_performance_probability",
                player_stats |-> player_stats, prop_type |-> prop_type, line |-> line,
                game_context |-> game_context, np_math |-> np_math,
                result |-> calculate_player_performance_probability(
                               player_stats, prop_type, line, game_context, np_math)]
    /\ UNCHANGED <<foldVars, svcVars>>

NextStats ==
    \/ call = NoCall /\ \E gc \in TeamContexts : CallTeamMoneyline(gc)
    \/ call = NoCall /\ \E gc \in TeamContexts, spread \in Spreads : CallTeamSpread(gc, spread)
    \/ call = NoCall /\ \E gc \in TeamContexts, total \in Totals : CallTeamTotal(gc, total)
    \/ call = NoCall /\ \E league \in Leagues, espn \in EspnOutcomes, market \in PropMarkets,
                           gc \in PropContexts :
                            CallPlayerProp(league, espn, market[1], market[2], gc)
    \/ call = NoCall /\ \E gc \in GameContexts : CallGameOutcome(gc)
    \/ call = NoCall /\ \E gc \in SpreadContexts, spread \in Spreads, np_math \in BOOLEAN :
                            CallPointDifferential(gc, spread, np_math)
    \/ call = NoCall /\ \E gc \in TotalContexts, total \in Totals, np_math \in BOOLEAN :
                            CallTotalPoints(gc, total, np_math)
    \/ call = NoCall /\ \E ps \in Players, market \in PerformanceMarkets,
                           gc \in PerformanceContexts, np_math \in BOOLEAN :
                            CallPlayerPerformance(ps, market[1], market[2], gc, np_math)

SpecStats == Init /\ [][NextStats]_vars

---------------------------------------------------------------------------
(* The recommendation analyzers of FantasyProbabilityApp                   *)
(* (src/fantasy_main.py).  Of the five analyzers only                      *)
(* _analyze_game_outcomes reaches its expected-value line:                 *)
(* _extract_spread_from_odds and _extract_total_from_odds return None for  *)
(* every quote, and _analyze_player_props and                              *)
(* find_fantasy_value_opportunities call methods that the calculator of    *)
(* probability_calculator.py does not have; all five lines read alike.     *)

\* Odds of models.py; probability is set from the price when the quote is
\* stored.
Odds(selection, price) ==
    [selection |-> selection, odds |-> price,
     probability |-> convert_american_to_probability(<<price, 1>>)]

\* 'home' in odds.selection.lower()
home_in_lower(selection) == selection \in {"Home Team", "HOME"}

\* expected_value = (true_prob * odds.odds) - (1 - true_prob)
analyzer_expected_value(true_prob, odds) ==
    RSub(RMul(true_prob, <<odds, 1>>), RSub(<<1, 1>>, true_prob))

RECURSIVE analyze_game_outcomes_from(_, _, _)
analyze_game_outcomes_from(probabilities, odds_list, n) ==
    IF n = 0 THEN <<>>
    ELSE LET odds == odds_list[n]
             true_prob == IF home_in_lower(odds.selection)
                          THEN probabilities.home_win_probability
                          ELSE probabilities.away_win_probability
             expected == analyzer_expected_value(true_prob, odds.odds)
             before == analyze_game_outcomes_from(probabilities, odds_list, n - 1)
         IN  IF RLt(<<5, 100>>, expected)
             THEN Append(before,
                         [selection |-> odds.selection, odds |-> odds.odds,
                          true_probability |-> true_prob,
                          implied_probability |-> odds.probability,
                          expected_value |-> expected])
             ELSE before

\* _analyze_game_outcomes
analyze_game_outcomes(game_context, odds_list) ==
    analyze_game_outcomes_from(calculate_game_outcome_probability(game_context),
                               odds_list, Len(odds_list))

AnalyzerContexts ==
    {GameContext(m[1], m[2], "nfl", FALSE, None, FALSE, FALSE) :
        m \in {<<HomeTeam, AwayTeam>>, <<AwayTeam, HomeTeam>>, <<Expansion, HomeTeam>>}}

CallAnalyzeGameOutcomes(game_context, selection, o) ==
    /\ call = NoCall
    /\ o # 0
    /\ call' = [fn |-> "analyze_game_outcomes", game_context |-> game_context,
                odds |-> Odds(selection, o),
                result |-> analyze_game_outcomes(game_context, <<Odds(selection, o)>>)]
    /\ UNCHANGED <<foldVars, svcVars>>

NextAnalyzers ==
    call = NoCall /\ \E gc \in AnalyzerContexts, selection \in {"Home Team", "Away Team"},
                        o \in OddsValues :
                         CallAnalyzeGameOutcomes(gc, selection, o)

SpecAnalyzers == Init /\ [][NextAnalyzers]_vars

---------------------------------------------------------------------------
(* DatabaseManager (src/betting_bot.py): the teams table.  Every method    *)
(* opens its own connection with sqlite3.connect(self.db_path) and closes  *)
(* it at its end.  A connection to a file sees what earlier connections    *)
(* committed; a connection to ":memory:" is a new, empty database that is  *)
(* gone when the connection is closed.  database.tables and database.teams *)
(* are the content of the file.                                            *)

MaxAdds == 3    \* add_team calls in one behaviour

MemoryPath == ":memory:"

Team(id, name, abbreviation, sp, conference, division) ==
    [id |-> id, name |-> name, abbreviation |-> abbreviation, sport |-> sp,
     conference |-> conference, division |-> division]

\* sqlite3.connect(self.db_path): what the new connection sees
connect(db) ==
    IF db.db_path = MemoryPath
    THEN [tables |-> FALSE, teams |-> <<>>]
    ELSE [tables |-> db.tables, teams |-> db.teams]

\* conn.commit(); conn.close(): what the file holds afterwards
commit(db, conn) ==
    IF db.db_path = MemoryPath
    THEN db
    ELSE [db EXCEPT !.tables = conn.tables, !.teams = conn.teams]

\* CREATE TABLE IF NOT EXISTS teams (...)
init_database(db) == commit(db, [connect(db) EXCEPT !.tables = TRUE])

\* The row of values bound to the INSERT statement
team_row(team) ==
    <<team.id, team.name, team.abbreviation, team.sport, team.conference,
      team.division>>

\* INSERT OR REPLACE: a row with the same primary key (id) is deleted, the
\* new row is appended.
insert_or_replace(rows, row) ==
    Append(SelectSeq(rows, LAMBDA r : r[1] # row[1]), row)

\* add_team; without the teams table the INSERT raises
\* sqlite3.OperationalError.
add_team(db, team) ==
    LET conn == connect(db)
    IN  IF ~conn.tables
        THEN [raised |-> TRUE, database |-> db]
        ELSE [raised |-> FALSE,
              database |->
                  commit(db, [conn EXCEPT
                                 !.teams = insert_or_replace(@, team_row(team))])]

\* get_teams_by_sport: SELECT * FROM teams WHERE sport = ?, each row made
\* into a Team.
get_teams_by_sport(db, sp) ==
    LET conn == connect(db)
        rows == SelectSeq(conn.teams, LAMBDA r : r[4] = sp)
    IN  IF ~conn.tables
        THEN [raised |-> TRUE, teams |-> <<>>]
        ELSE [raised |-> FALSE,
              teams |-> [i \in 1..Len(rows) |->
                            Team(rows[i][1], rows[i][2], rows[i][3], rows[i][4],
                                 rows[i][5], rows[i][6])]]

DbPaths == {MemoryPath, "fantasy_data.db"}

TeamsToAdd ==
    {Team(id, name, "TT", sp, "none", "none") :
        id \in {"test_team", "other_team"}, name \in {"Test Team", "Renamed"},
        sp \in {"nfl", "nba"}}

\* DatabaseManager(db_path)
DatabaseManagerInit(db_path) ==
    /\ database.db_path = "none"
    /\ database' = init_database([database EXCEPT !.db_path = db_path])
    /\ UNCHANGED <<foldVars, call, added, cacheVars, rateVars>>

AddTeam(team) ==
    /\ database.db_path # "none"
    /\ Len(added) < MaxAdds
    /\ database' = add_team(database, team).database
    /\ added' = Append(added, team)
    /\ call' = [fn |-> "add_team", team |-> team,
                raised |-> add_team(database, team).raised]
    /\ UNCHANGED <<foldVars, cacheVars, rateVars>>

GetTeamsBySport(sp) ==
    /\ database.db_path # "none"
    /\ call' = [fn |-> "get_teams_by_sport", sport |-> sp,
                raised |-> get_teams_by_sport(database, sp).raised,
                result |-> get_teams_by_sport(database, sp).teams]
    /\ UNCHANGED <<foldVars, dbVars, cacheVars, rateVars>>

NextDb ==
    \/ \E db_path \in DbPaths : DatabaseManagerInit(db_path)
    \/ \E team \in TeamsToAdd : AddTeam(team)
    \/ \E sp \in {"nfl", "nba"} : GetTeamsBySport(sp)

SpecDb == Init /\ [][NextDb]_vars

---------------------------------------------------------------------------
(* The cache of app.py and get_sport_opportunities with its two fetches.   *)
(*                                                                         *)
(* A string that get_cache_key joins with '_' is the sequence of its       *)
(* pieces between underscores: 'player_props' is <<"player", "props">> and *)
(* the key 'player_props_nfl' is <<"player", "props", "nfl">>.  What the   *)
(* provider returns is a category feed [fetch, quotes, bad] as above; the  *)
(* cache holds [data, timestamp] under each key.                           *)

MaxClock == 600       \* the clock stops here
MaxFetches == 3       \* provider calls made before the requests stop

CACHE_DURATION ==
    <<[key |-> <<"odds">>, value |-> 300],
      [key |-> <<"player", "props">>, value |-> 300],
      [key |-> <<"stats">>, value |-> 3600],
      [key |-> <<"analysis">>, value |-> 600]>>

\* "_".join([cache_type, sport])
get_cache_key(cache_type, sp) == cache_type \o <<sp>>

\* CACHE_DURATION.get(cache_key.split('_')[0], 300)
cache_duration(cache_key) ==
    IF HasKey(CACHE_DURATION, <<cache_key[1]>>)
    THEN Lookup(CACHE_DURATION, <<cache_key[1]>>)
    ELSE 300

\* del map[k]
Delete(map, k) == SelectSeq(map, LAMBDA e : e.key # k)

\* get_cached_data at time now: what it returns and the cache it leaves.
get_cached_data(c, cache_key, now) ==
    IF HasKey(c, cache_key)
    THEN IF now - Lookup(c, cache_key).timestamp < cache_duration(cache_key)
         THEN [data |-> Lookup(c, cache_key).data, cache |-> c]
         ELSE [data |-> None, cache |-> Delete(c, cache_key)]
    ELSE [data |-> None, cache |-> c]

set_cached_data(c, cache_key, data, now) ==
    Store(c, cache_key, [data |-> data, timestamp |-> now])

\* not cached_odds, not cached_props, and the test "if player_props:": None,
\* an empty dict and an empty list are all false.
Falsy(data) == data = None \/ Len(data.quotes) = 0

Fetch(cache_key, now, returned) ==
    [key |-> cache_key, time |-> now, returned |-> returned]

\* get_sport_opportunities(sp) at time now on cache c, the provider answering
\* team_resp and player_resp when asked: the cache it leaves, the calls it
\* makes to the provider, and the list it returns.  The player block is not
\* reached when the team loop raises.
serve_sport(c, now, sp, team_resp, player_resp) ==
    LET odds_key == get_cache_key(<<"odds">>, sp)
        props_key == get_cache_key(<<"player", "props">>, sp)
        team_get == get_cached_data(c, odds_key, now)
        team_miss == Falsy(team_get.data)
        c1 == IF team_miss
              THEN set_cached_data(team_get.cache, odds_key, team_resp, now)
              ELSE team_get.cache
        cached_odds == IF team_miss THEN team_resp ELSE team_get.data
        team_fetch == IF team_miss THEN <<Fetch(odds_key, now, team_resp)>> ELSE <<>>
        props_get == get_cached_data(c1, props_key, now)
        props_miss == Falsy(props_get.data)
        c2 == IF props_miss /\ player_resp.fetch = "ok" /\ ~Falsy(player_resp)
              THEN set_cached_data(props_get.cache, props_key, player_resp, now)
              ELSE props_get.cache
        props == IF props_miss THEN player_resp ELSE props_get.data
        props_fetch ==
            IF props_miss THEN <<Fetch(props_key, now, player_resp)>> ELSE <<>>
    IN  IF cached_odds.bad # 0
        THEN [cache |-> c1, fetched |-> team_fetch, result |-> <<>>]
        ELSE [cache |-> c2, fetched |-> team_fetch \o props_fetch,
              result |-> get_sport_opportunities(sp, [team |-> cached_odds,
                                                      player |-> props])]

TeamResponses == {OkFeed(<<>>), OkFeed(SmallTeam), BadFeed(SmallTeam, 2)}
PlayerResponses == {OkFeed(<<>>), OkFeed(SmallPlayer), NoFeed}
CacheSports == {"nfl", "nba"}
CacheTicks == {150, 300}

\* d seconds pass, the clock not going beyond until.
Tick(d, until) ==
    /\ clock + d <= until
    /\ clock' = clock + d
    /\ UNCHANGED <<foldVars, call, dbVars, cache, fetches, threads, rateVars>>

GetSportOpportunities(sp, team_resp, player_resp) ==
    /\ Len(fetches) < MaxFetches
    /\ cache' = serve_sport(cache, clock, sp, team_resp, player_resp).cache
    /\ fetches' = fetches \o serve_sport(cache, clock, sp, team_resp, player_resp).fetched
    /\ call' = [fn |-> "get_sport_opportunities", sport |-> sp, time |-> clock,
                raised |-> FALSE,
                fetched |-> serve_sport(cache, clock, sp, team_resp, player_resp).fetched,
                result |-> serve_sport(cache, clock, sp, team_resp, player_resp).result]
    /\ UNCHANGED <<foldVars, dbVars, clock, threads, rateVars>>

NextCache ==
    \/ \E d \in CacheTicks : Tick(d, MaxClock)
    \/ \E sp \in CacheSports, team_resp \in TeamResponses, player_resp \in PlayerResponses :
           GetSportOpportunities(sp, team_resp, player_resp)

SpecCache == Init /\ [][NextCache]_vars

---------------------------------------------------------------------------
(* The rate_limit decorator of app.py, as it wraps get_stats:              *)
(* @rate_limit(max_calls=10, period=60).  The other endpoints are wrapped  *)
(* by the same code with other numbers.  calls is the list of the          *)
(* decorator; a request is [time, status, handled], handled saying that    *)
(* the wrapped function ran.                                               *)

MaxRateClock == 120   \* the clock stops here
MaxRequests == 12     \* requests made to the endpoint

StatsMaxCalls == 10   \* max_calls of get_stats
StatsPeriod == 60     \* period of get_stats

\* Faulty variant: the limit is passed by one.
rate_limit_above(times, now, max_calls, period) ==
    LET kept == SelectSeq(times, LAMBDA t : now - t < period)
    IN  IF Len(kept) > max_calls
        THEN [calls |-> kept, status |-> 429, handled |-> FALSE]
        ELSE [calls |-> Append(kept, now), status |-> 200, handled |-> TRUE]

\* wrapper at time now, the list being times: the list it leaves, the status
\* of the response, and whether f was called.
rate_limit(times, now, max_calls, period) ==
    LET kept == SelectSeq(times, LAMBDA t : now - t < period)
    IN  IF Len(kept) >= max_calls
        THEN [calls |-> kept, status |-> 429, handled |-> FALSE]
        ELSE [calls |-> Append(kept, now), status |-> 200, handled |-> TRUE]

\* The body of the response of get_stats, as far as the cache shows in it.
get_stats(c) ==
    [cache_size |-> Len(c), cache_keys |-> [i \in 1..Len(c) |-> c[i].key]]

RateTicks == {30, 60}

\* A request to /api/stats.
GetStats ==
    /\ Len(requests) < MaxRequests
    /\ calls' = rate_limit(calls, clock, StatsMaxCalls, StatsPeriod).calls
    /\ requests' = Append(requests,
           [time |-> clock,
            status |-> rate_limit(calls, clock, StatsMaxCalls, StatsPeriod).status,
            handled |-> rate_limit(calls, clock, StatsMaxCalls, StatsPeriod).handled])
    /\ call' = IF rate_limit(calls, clock, StatsMaxCalls, StatsPeriod).handled
               THEN [fn |-> "get_stats", raised |-> FALSE, result |-> get_stats(cache)]
               ELSE [fn |-> "rate_limit", raised |-> FALSE,
                     result |-> [error |-> "Rate limit exceeded. Please try again later."]]
    /\ UNCHANGED <<foldVars, dbVars, cacheVars>>

NextRate ==
    \/ \E d \in RateTicks : Tick(d, MaxRateClock)
    \/ GetStats

SpecRate == Init /\ [][NextRate]_vars

---------------------------------------------------------------------------
(* get_sport_opportunities served by several threads at once (app.run      *)
(* serves each request in a thread of its own), one step per access to the *)
(* shared cache.  A thread is [sport, block, pc, data, timestamp,          *)
(* opportunities, result]: block is the block of the function it is in     *)
(* ("team" or "player"), pc its position in get_cached_data and after, and *)
(* data, timestamp, opportunities its local variables.  The provider       *)
(* answers every call with the same quotes.                                *)

MaxServed == 3        \* requests served in one run
MaxConcurrent == 2    \* requests served at the same time

ProviderOdds == OkFeed(SmallTeam)
ProviderProps == OkFeed(SmallPlayer)

ThreadTicks == {300}

block_key(t) ==
    IF t.block = "team" THEN get_cache_key(<<"odds">>, t.sport)
    ELSE get_cache_key(<<"player", "props">>, t.sport)

Active == {i \in 1..Len(threads) : threads[i].pc # "done"}

\* An exception in the team block is caught by the outer except clause, the
\* list still empty; one in the player block by the except clause of that
\* block, the team records being in the list.  The list is then sorted and
\* returned.
raise_in(t) ==
    [t EXCEPT !.pc = "done",
              !.result = IF t.block = "team" THEN <<>>
                         ELSE SortByEV(t.opportunities)]

\* The loops over the quotes and what follows them: the team records go to
\* the list and the player block begins, or the player records go to the
\* list, which is sorted and returned.
run_loop(t) ==
    IF t.block = "team"
    THEN [t EXCEPT !.block = "player", !.pc = "in",
                   !.opportunities =
                       Values(fold_team_props(t.sport, t.data.quotes, Len(t.data.quotes)))]
    ELSE [t EXCEPT !.pc = "done",
                   !.result =
                       SortByEV(t.opportunities
                                \o Values(fold_player_props(t.sport, t.data.quotes,
                                                            Len(t.data.quotes))))]

\* A request for sp arrives.
StartRequest(sp) ==
    /\ Len(threads) < MaxServed
    /\ Cardinality(Active) < MaxConcurrent
    /\ threads' = Append(threads,
           [sport |-> sp, block |-> "team", pc |-> "in", data |-> None,
            timestamp |-> 0, opportunities |-> <<>>, result |-> <<>>])
    /\ UNCHANGED <<foldVars, call, dbVars, cache, clock, fetches, rateVars>>

\* if cache_key in cache:
TestInCache(i) ==
    /\ threads[i].pc = "in"
    /\ threads' = [threads EXCEPT ![i].pc =
                      IF HasKey(cache, block_key(threads[i])) THEN "read" ELSE "fetch"]
    /\ UNCHANGED <<foldVars, call, dbVars, cache, clock, fetches, rateVars>>

\* data, timestamp = cache[cache_key]
ReadEntry(i) ==
    /\ threads[i].pc = "read"
    /\ threads' = [threads EXCEPT ![i] =
                      IF HasKey(cache, block_key(threads[i]))
                      THEN [threads[i] EXCEPT
                               !.pc = "ttl",
                               !.data = Lookup(cache, block_key(threads[i])).data,
                               !.timestamp = Lookup(cache, block_key(threads[i])).timestamp]
                      ELSE raise_in(threads[i])]
    /\ UNCHANGED <<foldVars, call, dbVars, cache, clock, fetches, rateVars>>

\* if datetime.now() - timestamp < timedelta(seconds=duration): return data
CompareAge(i) ==
    /\ threads[i].pc = "ttl"
    /\ threads' = [threads EXCEPT ![i].pc =
                      IF clock - threads[i].timestamp < cache_duration(block_key(threads[i]))
                      THEN "loop" ELSE "del"]
    /\ UNCHANGED <<foldVars, call, dbVars, cache, clock, fetches, rateVars>>

\* del cache[cache_key]; return None
DeleteEntry(i) ==
    /\ threads[i].pc = "del"
    /\ threads' = [threads EXCEPT ![i] =
                      IF HasKey(cache, block_key(threads[i]))
                      THEN [threads[i] EXCEPT !.pc = "fetch", !.data = None]
                      ELSE raise_in(threads[i])]
    /\ cache' = Delete(cache, block_key(threads[i]))
    /\ UNCHANGED <<foldVars, call, dbVars, clock, fetches, rateVars>>

\* The call to the provider and set_cached_data.
FetchAndStore(i) ==
    /\ threads[i].pc = "fetch"
    /\ threads' = [threads EXCEPT ![i].pc = "loop",
                                  ![i].data = IF threads[i].block = "team"
                                              THEN ProviderOdds ELSE ProviderProps]
    /\ cache' = set_cached_data(cache, block_key(threads[i]),
                                IF threads[i].block = "team"
                                THEN ProviderOdds ELSE ProviderProps, clock)
    /\ UNCHANGED <<foldVars, call, dbVars, clock, fetches, rateVars>>

RunLoop(i) ==
    /\ threads[i].pc = "loop"
    /\ threads' = [threads EXCEPT ![i] = run_loop(threads[i])]
    /\ UNCHANGED <<foldVars, call, dbVars, cache, clock, fetches, rateVars>>

NextThreads ==
    \/ \E d \in ThreadTicks : Tick(d, MaxClock)
    \/ \E sp \in CacheSports : StartRequest(sp)
    \/ \E i \in 1..Len(threads) : TestInCache(i)
    \/ \E i \in 1..Len(threads) : ReadEntry(i)
    \/ \E i \in 1..Len(threads) : CompareAge(i)
    \/ \E i \in 1..Len(threads) : DeleteEntry(i)
    \/ \E i \in 1..Len(threads) : FetchAndStore(i)
    \/ \E i \in 1..Len(threads) : RunLoop(i)

SpecThreads == Init /\ [][NextThreads]_vars

---------------------------------------------------------------------------
(* Properties of the best-price fold.                                      *)

MapOf(pool) == IF pool = "team" THEN best_odds_map ELSE player_best_odds

Pools == {"team", "player"}

\* The positions in seen of the outcomes folded into record i of a pool.
QuotesOf(pool, i) ==
    {j \in 1..Len(seen) : seen[j].pool = pool /\ seen[j].slot = i}

MaxOf(S) == CHOOSE x \in S : \A y \in S : y <= x

\* s without the later repetitions of its elements.
RECURSIVE Distinct(_)
Distinct(s) ==
    IF Len(s) = 0 THEN <<>>
    ELSE LET d == Distinct(SubSeq(s, 1, Len(s) - 1))
         IN  IF s[Len(s)] \in Range(d) THEN d ELSE Append(d, s[Len(s)])

\* The titles, in order of arrival, of the outcomes of record i priced p.
RECURSIVE TitlesAt(_, _, _, _)
TitlesAt(pool, i, p, n) ==
    IF n = 0 THEN <<>>
    ELSE IF seen[n].pool = pool /\ seen[n].slot = i /\ seen[n].q.price = p
    THEN Append(TitlesAt(pool, i, p, n - 1), seen[n].q.title)
    ELSE TitlesAt(pool, i, p, n - 1)

\* C1: after every processed outcome, in the team pool and in the player pool,
\* every record holds the largest American odds among the nonzero-priced
\* outcomes folded into it so far (so a lower quote arriving later never
\* replaces a higher one), and every nonzero-priced outcome has a record.
C1_BestPriceKept ==
    \A pool \in Pools :
        /\ \A j \in 1..Len(seen) :
              (seen[j].pool = pool /\ seen[j].q.price # 0
                    /\ (pool = "team" => seen[j].q.key \in DisplayedMarkets))
                => seen[j].slot \in 1..Len(MapOf(pool))
        /\ \A i \in 1..Len(MapOf(pool)) :
              /\ QuotesOf(pool, i) # {}
              /\ MapOf(pool)[i].value.odds
                   = MaxOf({seen[j].q.price : j \in QuotesOf(pool, i)})

\* A record holds +120 after a quote at +120 was followed by a lower nonzero
\* quote on the same record.
C1_Witness ==
    \E pool \in Pools : \E i \in 1..Len(MapOf(pool)) :
        /\ MapOf(pool)[i].value.odds = 120
        /\ \E j, k \in QuotesOf(pool, i) :
              j < k /\ seen[j].q.price = 120 /\ seen[k].q.price = -110

\* C2: the bookmakers list of every record is exactly the distinct titles that
\* quoted the record's current odds, in order of first arrival.
C2_BookmakersAtBest ==
    \A pool \in Pools : \A i \in 1..Len(MapOf(pool)) :
        MapOf(pool)[i].value.bookmakers
            = Distinct(TitlesAt(pool, i, MapOf(pool)[i].value.odds, Len(seen)))

\* (+110, BookA), (+120, BookB), (+120, BookC) were folded into one record,
\* which holds +120 with [BookB, BookC].
C2_Witness ==
    \E pool \in Pools : \E i \in 1..Len(MapOf(pool)) :
        /\ Len(seen) = 3
        /\ \A j \in 1..3 : seen[j].pool = pool /\ seen[j].slot = i
        /\ <<seen[1].q.price, seen[1].q.title>> = <<110, "BookA">>
        /\ <<seen[2].q.price, seen[2].q.title>> = <<120, "BookB">>
        /\ <<seen[3].q.price, seen[3].q.title>> = <<120, "BookC">>
        /\ MapOf(pool)[i].value.odds = 120
        /\ MapOf(pool)[i].value.bookmakers = <<"BookB", "BookC">>

\* The record's expected value agrees, up to the rounding of its fields, with
\* (its calculated probability - the implied probability of its odds) * the
\* payout of its odds.  The tolerance is twice the rounding error: 0.0005 for
\* expected_value and 0.00005 * payout for calculated_probability.
EVMatchesRecord(r) ==
    LET payout == potential_payout(r.odds)
        claimed == RMul(RSub(Rat(r.calculated_probability, 10000),
                             implied_prob(r.odds)), payout)
        diff == RAbs(RSub(Rat(r.expected_value, 1000), claimed))
    IN  RLe(diff, RAdd(<<1, 1000>>, RMul(<<1, 10000>>, payout)))

PriceReplaced(old_map, new_map, i) ==
    i <= Len(old_map) /\ new_map[i].value.odds > old_map[i].value.odds

ReplacementKeepsProbability(old_map, new_map) ==
    \A i \in 1..Len(new_map) :
        PriceReplaced(old_map, new_map, i) =>
            /\ new_map[i].value.calculated_probability
                   = old_map[i].value.calculated_probability
            /\ EVMatchesRecord(new_map[i].value)

\* C3: whenever a strictly better price replaces the stored price of a record,
\* in either pool, the record keeps its calculated probability, and its new
\* expected value is (that calculated probability - the implied probability of
\* the new odds) * the payout of the new odds, up to rounding.
C3_ReplacementUsesKeptProbability ==
    [][/\ ReplacementKeepsProbability(best_odds_map, best_odds_map')
       /\ ReplacementKeepsProbability(player_best_odds, player_best_odds')]_vars

---------------------------------------------------------------------------
(* Properties of the key construction.                                     *)

LineBearing(pool, market_key) ==
    pool = "player" \/ market_key \in {"spreads", "totals"}

\* Same game, market and selection and, on a line-bearing market, the same
\* point as a number.
SameBet(e1, e2) ==
    /\ e1.q.home_team = e2.q.home_team
    /\ e1.q.away_team = e2.q.away_team
    /\ e1.q.key = e2.q.key
    /\ e1.q.name = e2.q.name
    /\ LineBearing(e1.pool, e1.q.key) => e1.q.point.halves = e2.q.point.halves

\* C4: two nonzero-priced outcomes folded by the same loop are folded into the
\* same record if and only if they have the same game, market and selection
\* and, for spreads, totals and player props, the same point; the point of a
\* moneyline outcome is not part of the key.
C4_SameRecordIffSameBet ==
    \A j, k \in 1..Len(seen) :
        (seen[j].pool = seen[k].pool /\ seen[j].slot # 0 /\ seen[k].slot # 0)
            => ((seen[j].slot = seen[k].slot) <=> SameBet(seen[j], seen[k]))

---------------------------------------------------------------------------
(* Properties of the heuristic estimates.                                  *)

IsEstimate == call.fn \in {"team_calculated_prob", "player_calculated_prob"}

Half == <<1, 2>>

\* The relative amount by which calculated lies below implied.
RelShrink(calculated, implied) == RSub(<<1, 1>>, RDiv(calculated, implied))

\* C5: for every nonzero odds value and every market type the calculated
\* probability is no further from 0.5 than the implied probability.
C5_PulledTowardHalf ==
    IsEstimate =>
        RLe(RAbs(RSub(call.calculated, Half)), RAbs(RSub(call.implied, Half)))

\* C6: a moneyline estimate at |odds| > 200 is shrunk by 2%, more than the 1%
\* of any moneyline estimate at |odds| <= 200; a player-prop estimate is shrunk
\* by 3% when |odds| < 150 and by 4% otherwise, at least as much as the
\* estimate of any team market at the same odds.
C6_ShrinkMonotone ==
    /\ (call.fn = "team_calculated_prob" /\ call.market_key = "h2h") =>
          /\ RelShrink(call.calculated, call.implied)
                = IF Abs(call.odds) > 200 THEN Rat(2, 100) ELSE Rat(1, 100)
          /\ Abs(call.odds) > 200 =>
                \A o \in OddsValues :
                    (o # 0 /\ Abs(o) <= 200) =>
                        RLt(RelShrink(team_calculated_prob("h2h", o, call.point,
                                                           implied_prob(o)),
                                      implied_prob(o)),
                            RelShrink(call.calculated, call.implied))
    /\ call.fn = "player_calculated_prob" =>
          /\ RelShrink(call.calculated, call.implied)
                = IF Abs(call.odds) < 150 THEN Rat(3, 100) ELSE Rat(4, 100)
          /\ \A m \in DisplayedMarkets, pt \in EstimatePoints :
                RLe(RelShrink(team_calculated_prob(m, call.odds, pt, call.implied),
                              call.implied),
                    RelShrink(call.calculated, call.implied))

\* A moneyline estimate just past the threshold, shrunk by 2%.
C6_Witness ==
    /\ call.fn = "team_calculated_prob"
    /\ call.market_key = "h2h"
    /\ call.odds = 201
    /\ RelShrink(call.calculated, call.implied) = Rat(2, 100)

---------------------------------------------------------------------------
(* Properties of the odds conversions and of the value analysis.           *)

Returned(fn) == call.fn = fn /\ ~call.raised

\* C7 as stated, read for quotes as sportsbooks give them (|o| >= 100): the
\* probability lies strictly between 0 and 1, and o > 0 exactly when the
\* probability is below 0.5.
C7_PositiveIffBelowHalf ==
    (Returned("convert_american_to_probability") /\ Abs(call.american_odds) >= 100) =>
        /\ RLt(<<0, 1>>, call.result) /\ RLt(call.result, <<1, 1>>)
        /\ (call.american_odds > 0) <=> RLt(call.result, Half)

\* C7 amended: for all nonzero American odds o the probability lies strictly
\* between 0 and 1, and it is below 0.5 exactly when o > 100 or -100 < o < 0
\* (+100 gives exactly 0.5).
C7_BelowHalfIffLongOdds ==
    Returned("convert_american_to_probability") =>
        /\ RLt(<<0, 1>>, call.result) /\ RLt(call.result, <<1, 1>>)
        /\ RLt(call.result, Half)
              <=> (call.american_odds > 100
                     \/ (-100 < call.american_odds /\ call.american_odds < 0))

\* +100 converts to exactly 0.5.
C7_Witness ==
    /\ Returned("convert_american_to_probability")
    /\ call.american_odds = 100
    /\ call.result = Half

\* C8: the decimal odds are american/100 + 1 for american > 0 and
\* 100/|american| + 1 for american < 0, and the probability is the reciprocal
\* of the decimal odds; +150 gives 2.5 and 0.4, -200 gives 1.5 and 2/3.
C8_Conversion ==
    /\ Returned("convert_american_to_decimal") =>
          /\ call.american_odds > 0 =>
                call.result = Rat(call.american_odds + 100, 100)
          /\ call.american_odds < 0 =>
                call.result = Rat(100 - call.american_odds, -call.american_odds)
          /\ call.american_odds = 150 => call.result = <<5, 2>>
          /\ call.american_odds = -200 => call.result = <<3, 2>>
    /\ Returned("convert_american_to_probability") =>
          /\ RMul(call.result, convert_american_to_decimal(<<call.american_odds, 1>>))
                = <<1, 1>>
          /\ call.american_odds = 150 => call.result = <<2, 5>>
          /\ call.american_odds = -200 => call.result = <<2, 3>>

\* -200 was converted to the probability 2/3.
C8_Witness ==
    /\ Returned("convert_american_to_probability")
    /\ call.american_odds = -200
    /\ call.result = <<2, 3>>

\* The arithmetic mean of the implied probabilities of a non-empty list.
MeanImplied(l) == RDiv(RSum([i \in 1..Len(l) |-> implied_prob(l[i])]), <<Len(l), 1>>)

\* C9: an empty list gives 0; a non-empty list of nonzero odds gives the
\* American odds of the mean p of the implied probabilities, -100*p/(1-p)
\* (negative) when p >= 0.5 and 100*(1-p)/p (positive) otherwise; a list of
\* odds all above +100 gives a positive result.
C9_FairOdds ==
    Returned("calculate_fair_odds") =>
        /\ Len(call.odds_list) = 0 => call.result = <<0, 1>>
        /\ Len(call.odds_list) > 0 =>
              LET p == MeanImplied(call.odds_list) IN
              /\ RLe(Half, p) =>
                    /\ call.result = Rat(-100 * p[1], p[2] - p[1])
                    /\ call.result[1] < 0
              /\ RLt(p, Half) =>
                    /\ call.result = Rat(100 * (p[2] - p[1]), p[1])
                    /\ call.result[1] > 0
              /\ (\A i \in 1..Len(call.odds_list) : call.odds_list[i] > 100) =>
                    call.result[1] > 0

\* Three odds above +100 gave a positive fair price.
C9_Witness ==
    /\ Returned("calculate_fair_odds")
    /\ call.odds_list = <<150, 160, 140>>
    /\ call.result[1] > 0

\* C10: for calculated probability p and nonzero odds o the expected value is
\* p * payout - (1 - p), payout being o/100 for o > 0 and 100/|o| for o < 0.
\* Over a common denominator: (p*(o + 100) - 100) / 100 for o > 0 and
\* (p*(100 + |o|) - |o|) / |o| for o < 0.
C10_ExpectedValue ==
    Returned("analyze_prop_value") =>
        LET p == call.calculated_prob
            o == call.odds
            ev == call.result.expected_value
        IN  /\ o > 0 => ev = Rat(p[1] * (o + 100) - 100 * p[2], 100 * p[2])
            /\ o < 0 => ev = Rat(p[1] * (100 - o) + o * p[2], -o * p[2])

\* p = 0.5 at +150: 0.5 * 1.5 - 0.5 = 0.25.
C10_Witness ==
    /\ Returned("analyze_prop_value")
    /\ call.calculated_prob = Half
    /\ call.odds = 150
    /\ call.result.expected_value = <<1, 4>>

\* C11: analyze_prop_value sets has_value and recommends "BET" exactly when
\* the expected value it reports is greater than 0.05, and recommends "PASS"
\* otherwise; an expected value of exactly 0.05 is a "PASS".
C11_BetIffAboveMinEdge ==
    Returned("analyze_prop_value") =>
        LET r == call.result
            above == r.expected_value[1] * 20 > r.expected_value[2]
        IN  /\ r.has_value = above
            /\ r.recommendation = (IF above THEN "BET" ELSE "PASS")
            /\ r.expected_value = <<1, 20>> =>
                  (~r.has_value /\ r.recommendation = "PASS")

\* p = 0.525 at +100: the expected value is exactly 0.05 and the answer is
\* "PASS".
C11_Witness ==
    /\ Returned("analyze_prop_value")
    /\ call.odds = 100
    /\ call.result.expected_value = <<1, 20>>
    /\ ~call.result.has_value
    /\ call.result.recommendation = "PASS"

---------------------------------------------------------------------------
(* Properties of the zero-odds skip.                                       *)

\* The step hands a zero-priced outcome to one of the two loops.
ZeroPricedStep ==
    /\ Len(seen') = Len(seen) + 1
    /\ seen'[Len(seen')].q.price = 0

\* Every displayed, nonzero-priced outcome that arrived after a zero-priced
\* one of the same loop has a record holding at least its price.
ProcessedAfterZero(history, team_map, player_map) ==
    \A j, k \in 1..Len(history) :
        (/\ j < k
         /\ history[j].pool = history[k].pool
         /\ history[j].q.price = 0
         /\ history[k].q.price # 0
         /\ (history[k].pool = "team" => history[k].q.key \in DisplayedMarkets))
        => LET map == IF history[k].pool = "team" THEN team_map ELSE player_map
           IN  /\ history[k].slot \in 1..Len(map)
               /\ map[history[k].slot].value.odds >= history[k].q.price

\* C16: an outcome whose price is 0 (a missing price reads as 0) adds no
\* record to either map and changes none, the loop it is in goes on, and the
\* outcomes that follow it are folded as usual.
C16_ZeroOddsSkipped ==
    [][/\ ZeroPricedStep =>
             /\ best_odds_map' = best_odds_map
             /\ player_best_odds' = player_best_odds
             /\ seen'[Len(seen')].slot = 0
             /\ pc' = pc
       /\ ProcessedAfterZero(seen', best_odds_map', player_best_odds')]_vars

\* +110, then a zero price, then +120 on the same bet: the record made by the
\* first outcome survived the second and took the price of the third.
C16_Witness ==
    \E pool \in Pools :
        /\ Len(seen) = 3
        /\ \A j \in 1..3 : seen[j].pool = pool
        /\ <<seen[1].q.price, seen[2].q.price, seen[3].q.price>> = <<110, 0, 120>>
        /\ <<seen[1].slot, seen[2].slot, seen[3].slot>> = <<1, 0, 1>>
        /\ Len(MapOf(pool)) = 1
        /\ MapOf(pool)[1].value.odds = 120

---------------------------------------------------------------------------
(* Properties of the aggregation.                                          *)

SortedByEV(list) ==
    \A i \in 1..Len(list) - 1 : list[i].expected_value >= list[i + 1].expected_value

Count(list, r) == Cardinality({i \in 1..Len(list) : list[i] = r})

\* top holds records of all, none more often than all does, and no record
\* left out has a higher expected value than one that is in.
HighestOf(top, all) ==
    /\ Range(top) \subseteq Range(all)
    /\ \A r \in Range(all) :
          /\ Count(top, r) <= Count(all, r)
          /\ Count(top, r) < Count(all, r) =>
                \A i \in 1..Len(top) : top[i].expected_value >= r.expected_value

\* C12: the list returned by get_opportunities is in non-increasing order of
\* expected value, its length is min(N, 100), N being the number of records
\* aggregated over all sports, and it holds the min(N, 100) records of highest
\* expected value.
C12_RankedAndCapped ==
    Returned("get_opportunities") =>
        LET all == aggregate(call.feeds, Len(AllSports))
            top == call.result.opportunities
        IN  /\ SortedByEV(top)
            /\ Len(top) = Min(Len(all), ResultCap)
            /\ call.result.count = Len(top)
            /\ HighestOf(top, all)

\* More than 100 records were aggregated, from two sports; 100 were returned,
\* some of each sport.
C12_Witness ==
    /\ Returned("get_opportunities")
    /\ Len(aggregate(call.feeds, Len(AllSports))) > ResultCap
    /\ Len(call.result.opportunities) = ResultCap
    /\ \E i, j \in 1..ResultCap :
          /\ call.result.opportunities[i].sport = "nfl"
          /\ call.result.opportunities[j].sport = "nba"

\* C13: the list returned for a single sport is sorted descending by expected
\* value and truncated to the cap of 100, like the list for all sports.
C13_SportListCapped ==
    Returned("get_sport_opportunities_endpoint") =>
        /\ SortedByEV(call.result.opportunities)
        /\ Len(call.result.opportunities) <= ResultCap
        /\ call.result.count = Len(call.result.opportunities)

\* Fetching or processing one of the two categories of the feed raises.
Fails(feed) ==
    \/ feed.team.fetch = "raises" \/ feed.team.bad # 0
    \/ feed.player.fetch = "raises" \/ feed.player.bad # 0

TeamFails(feed) == feed.team.fetch = "raises" \/ feed.team.bad # 0

PlayerFails(feed) == feed.player.fetch = "raises" \/ feed.player.bad # 0

\* C14 as stated: the aggregation returns, and what it returns is what it
\* returns when every sport of which a fetch or a loop raises has nothing to
\* say at all.
C14_FailingSportContributesNone ==
    Returned("get_opportunities") =>
        call.result
            = get_opportunities([s \in SportSet |->
                  IF Fails(call.feeds[s]) THEN Quiet ELSE call.feeds[s]])

\* C14 amended: the aggregation returns; a sport of which the team fetch or
\* the team loop raises contributes nothing, and a sport of which only the
\* player fetch or the player loop raises contributes its team records and no
\* player record; the other sports contribute as if nothing had failed.
C14_FailingCategoryContributesNone ==
    Returned("get_opportunities") =>
        call.result
            = get_opportunities([s \in SportSet |->
                  IF TeamFails(call.feeds[s]) THEN Quiet
                  ELSE IF PlayerFails(call.feeds[s])
                  THEN [team |-> call.feeds[s].team, player |-> OkFeed(<<>>)]
                  ELSE call.feeds[s]])

\* The team loop of one sport raised on its second outcome, another sport
\* delivered four records, and exactly those four were returned.
C14_Witness ==
    /\ Returned("get_opportunities")
    /\ \E s \in SportSet :
          /\ call.feeds[s].team.bad = 2
          /\ \E o \in SportSet \ {s} :
                /\ ~Fails(call.feeds[o]) /\ call.feeds[o] # Quiet
                /\ call.result.count = 4
                /\ \A i \in 1..4 : call.result.opportunities[i].sport = o

\* The records the player quotes of a feed fold to.
PlayerRecords(sp, feed) ==
    Range(Values(fold_player_props(sp, feed.player.quotes, Len(feed.player.quotes))))

\* The records the team quotes of a feed fold to.
TeamRecords(sp, feed) ==
    Range(Values(fold_team_props(sp, feed.team.quotes, Len(feed.team.quotes))))

\* C15: within one sport, when the team fetch or the team loop raises and the
\* player category does not, the player records are returned; when the player
\* fetch or the player loop raises and the team category does not, the team
\* records are returned.
C15_CategoriesIsolated ==
    Returned("get_sport_opportunities_endpoint") =>
        /\ (TeamFails(call.feed) /\ ~PlayerFails(call.feed)) =>
              PlayerRecords(call.sport, call.feed)
                  \subseteq Range(call.result.opportunities)
        /\ (PlayerFails(call.feed) /\ ~TeamFails(call.feed)) =>
              TeamRecords(call.sport, call.feed)
                  \subseteq Range(call.result.opportunities)

---------------------------------------------------------------------------
(* Properties of the statistical model.                                    *)

\* The game of main() in fantasy_probability_calculator.py
MainExample == GameContext(Dallas, Philadelphia, "nfl", FALSE, None, FALSE, FALSE)

\* (home_avg_for - home_avg_against) - (away_avg_for - away_avg_against)
\*     + home_field_advantage
NetMargin(game_context, home_field_advantage) ==
    RAdd(RSub(RSub(game_context.home_team_stats.avg_points_for,
                   game_context.home_team_stats.avg_points_against),
              RSub(game_context.away_team_stats.avg_points_for,
                   game_context.away_team_stats.avg_points_against)),
         home_field_advantage)

\* C18: the expected margin used for a spread probability is the net
\* scoring margin of the home team minus that of the away team, taken from
\* the averages the caller passes, plus the home-field advantage of the
\* sport; for the game of main() (28.5/20.2 against 26.8/22.1, "nfl")
\* calculate_team_spread_probability reports an expected margin of 6.1.
\* Games on a neutral site, conference games and rivalry games are left out.
C18_ExpectedMarginIsNetMargin ==
    /\ (call.fn = "calculate_team_spread_probability"
            /\ ~call.game_context.is_neutral_site)
        => call.result.expected_margin
             = NetMargin(call.game_context,
                         sport_stats(call.game_context.sport).home_advantage)
    /\ (call.fn = "calculate_team_spread_probability"
            /\ call.game_context = MainExample)
        => call.result.expected_margin = <<61, 10>>
    /\ (call.fn = "calculate_point_differential_probability"
            /\ ~call.game_context.conference_game /\ ~call.game_context.rivalry_game)
        => point_differential_expected_margin(call.after)
             = NetMargin(call.game_context,
                         point_differential_advantage(call.game_context.sport))

\* Both strengths of the moneyline of fantasy_probability_calculator.py
TeamStrengths(game_context) ==
    << calculate_team_strength(game_context.home_team_stats, game_context.sport, TRUE),
       calculate_team_strength(game_context.away_team_stats, game_context.sport, FALSE) >>

\* home and away are the shares of the strengths: they sum to 1, home is the
\* larger exactly when its strength is, and both are 1/2 at total strength 0
NormalizedShares(home, away, strengths) ==
    /\ RAdd(home, away) = <<1, 1>>
    /\ RLt(away, home) <=> RLt(strengths[2], strengths[1])
    /\ RAdd(strengths[1], strengths[2])[1] = 0 => home = <<1, 2>> /\ away = <<1, 2>>

\* C19: the two moneyline probabilities of every game context sum to 1, the
\* home probability exceeds the away probability exactly when the home
\* strength exceeds the away strength, and both are 0.5 when the total
\* strength is zero.  A game of probability_calculator.py with a split
\* record of no games has no strengths; its probabilities must still sum
\* to 1.
C19_MoneylineNormalizedShares ==
    /\ call.fn = "calculate_team_moneyline_probability"
        => NormalizedShares(call.result.home_win_prob, call.result.away_win_prob,
                            TeamStrengths(call.game_context))
    /\ call.fn = "calculate_game_outcome_probability"
        => /\ RAdd(call.result.home_win_probability,
                   call.result.away_win_probability) = <<1, 1>>
           /\ (call.game_context.home_team_stats.home_record # <<0, 0>>
                  /\ call.game_context.away_team_stats.away_record # <<0, 0>>)
               => NormalizedShares(call.result.home_win_probability,
                                   call.result.away_win_probability,
                                   statistical_strengths(call.game_context))

\* p and q are probabilities that sum to 1
Complementary(p, q) ==
    /\ RLe(<<0, 1>>, p) /\ RLe(p, <<1, 1>>)
    /\ RLe(<<0, 1>>, q) /\ RLe(q, <<1, 1>>)
    /\ RAdd(p, q) = <<1, 1>>

\* p exceeds 0.5 exactly when the line is below the expected value
FavoursOver(p, line, expected) == RLt(<<1, 2>>, p) <=> RLt(line, expected)

\* C17: in every spread, total and player-prop calculation, fallback results
\* included, the two probabilities lie in [0,1] and sum to 1, and the first
\* exceeds 0.5 exactly when the line is below the expected value.  The
\* expected value is the one the result reports; where the result reports
\* none it is the expected margin of the context the caller passes, and the
\* fallback results of probability_calculator.py, which have none, are held
\* to the first two conditions only.
C17_ComplementaryAroundLine ==
    /\ call.fn = "calculate_team_spread_probability"
        => /\ Complementary(call.result.home_covers_prob, call.result.away_covers_prob)
           /\ FavoursOver(call.result.home_covers_prob, call.line,
                          call.result.expected_margin)
    /\ call.fn = "calculate_team_total_probability"
        => /\ Complementary(call.result.over_prob, call.result.under_prob)
           /\ FavoursOver(call.result.over_prob, call.line, call.result.expected_total)
    /\ call.fn = "calculate_player_prop_probability"
        => /\ Complementary(call.result.over_prob, call.result.under_prob)
           /\ FavoursOver(call.result.over_prob, call.line, call.result.expected_value)
    /\ call.fn = "calculate_point_differential_probability"
        => /\ Complementary(call.result.home_covers_probability,
                            call.result.away_covers_probability)
           /\ call.np_math
               => FavoursOver(call.result.home_covers_probability, call.line,
                              point_differential_expected_margin(call.game_context))
    /\ call.fn = "calculate_total_points_probability"
        => /\ Complementary(call.result.over_probability, call.result.under_probability)
           /\ "expected_total" \in DOMAIN call.result
               => FavoursOver(call.result.over_probability, call.line,
                              call.result.expected_total)
    /\ call.fn = "calculate_player_performance_probability"
        => /\ Complementary(call.result.over_probability, call.result.under_probability)
           /\ "expected_value" \in DOMAIN call.result
               => FavoursOver(call.result.over_probability, call.line,
                              call.result.expected_value)

\* No key of the box score is a name of the prop type in the league, upper
\* and lower case taken as the same
CategoryAbsent(stats, league, prop_type) ==
    \/ league \notin DOMAIN PLAYER_PROP_MAPPINGS
    \/ prop_type \notin DOMAIN PLAYER_PROP_MAPPINGS[league]
    \/ \A i \in 1..Len(stats) :
          \A j \in 1..Len(PLAYER_PROP_MAPPINGS[league][prop_type]) :
              UpperKey(stats[i].key) # UpperKey(PLAYER_PROP_MAPPINGS[league][prop_type][j])

\* C20: when no stats are found for the player, or the requested stat
\* category is absent from the stats, the player-prop operations return an
\* over probability of 0.5, an under probability of 0.5 and a confidence of
\* 0.0 (a result is returned: the call does not raise).
C20_MissingStatsNeutral ==
    /\ (call.fn = "calculate_player_prop_probability"
            /\ (\/ call.espn.raises # "no"
                \/ CategoryAbsent(call.espn.stats, call.league, call.prop_type)))
        => /\ call.result.over_prob = <<1, 2>>
           /\ call.result.under_prob = <<1, 2>>
           /\ call.result.confidence = Exactly(<<0, 1>>)
    /\ (call.fn = "calculate_player_performance_probability"
            /\ (\/ ~call.player_stats.found
                \/ ~HasKey(call.player_stats.stats, call.prop_type)))
        => /\ call.result.over_probability = <<1, 2>>
           /\ call.result.under_probability = <<1, 2>>
           /\ call.result.confidence = <<0, 1>>

\* A box score was found, it has entries, none of them is the requested
\* category, and the neutral result came back.
C20_Witness ==
    /\ call.fn = "calculate_player_prop_probability"
    /\ call.espn.raises = "no"
    /\ Len(call.espn.stats) > 0
    /\ call.league \in DOMAIN PLAYER_PROP_MAPPINGS
    /\ call.prop_type \in DOMAIN PLAYER_PROP_MAPPINGS[call.league]
    /\ CategoryAbsent(call.espn.stats, call.league, call.prop_type)
    /\ call.result.over_prob = <<1, 2>>
    /\ call.result.confidence = Exactly(<<0, 1>>)

---------------------------------------------------------------------------
(* Properties of the zero denominators.                                    *)

\* C21: a value operation called with zero odds does not raise: it returns
\* a result whose expected value and value percentage are the neutral 0 and
\* whose recommendation is "PASS".
C21_ZeroOddsNeutral ==
    (call.fn = "analyze_prop_value" /\ call.odds = 0)
        => /\ ~call.raised
           /\ call.result.expected_value = <<0, 1>>
           /\ call.result.value_percentage = <<0, 1>>
           /\ call.result.recommendation = "PASS"

---------------------------------------------------------------------------
(* Properties of the caller's TeamStats.                                   *)

\* C22: calculate_point_differential_probability leaves the TeamStats of
\* the game context the caller passes unchanged, and the same call made
\* again on that context returns the same probabilities.
C22_TeamStatsUnchanged ==
    call.fn = "calculate_point_differential_probability"
        => /\ call.after = call.game_context
           /\ calculate_point_differential_probability(
                  call.after, call.line, call.np_math).result = call.result

---------------------------------------------------------------------------
(* Properties of the team storage.                                         *)

\* The version of the team with this id that was added last
LatestAdded(id) ==
    LET at == CHOOSE i \in 1..Len(added) :
                  /\ added[i].id = id
                  /\ \A j \in (i + 1)..Len(added) : added[j].id # id
    IN  added[at]

AddedIds == {added[i].id : i \in 1..Len(added)}

\* C24: add_team does not raise, and get_teams_by_sport(s) returns, without
\* raising, exactly one Team per id whose latest added version has sport s,
\* equal to that latest version.
C24_TeamRoundTrip ==
    /\ call.fn = "add_team" => ~call.raised
    /\ call.fn = "get_teams_by_sport"
        => /\ ~call.raised
           /\ \A i, j \in 1..Len(call.result) :
                  call.result[i].id = call.result[j].id => i = j
           /\ Range(call.result)
                  = {LatestAdded(id) : id \in {x \in AddedIds :
                                                  LatestAdded(x).sport = call.sport}}

---------------------------------------------------------------------------
(* Properties of the recommendation analyzers.                             *)

\* Profit per unit stake at American odds o
UnitPayout(o) == IF o > 0 THEN Rat(o, 100) ELSE Rat(100, -o)

\* p * payout - (1 - p)
UnitExpectedValue(p, o) == RSub(RMul(p, UnitPayout(o)), RSub(<<1, 1>>, p))

\* C25: _analyze_game_outcomes recommends a quote exactly when
\* p * payout - (1 - p) exceeds 0.05, p being the true probability of the
\* selection and payout the profit per unit stake at the quote's American
\* odds, and the expected value it reports is that number.
C25_AnalyzerExpectedValue ==
    call.fn = "analyze_game_outcomes"
        => LET probabilities == calculate_game_outcome_probability(call.game_context)
               p == IF call.odds.selection = "Home Team"
                    THEN probabilities.home_win_probability
                    ELSE probabilities.away_win_probability
           IN  /\ Len(call.result) = 1 <=> RLt(<<5, 100>>, UnitExpectedValue(p, call.odds.odds))
               /\ \A i \in 1..Len(call.result) :
                      call.result[i].expected_value = UnitExpectedValue(p, call.odds.odds)

---------------------------------------------------------------------------
(* Properties of the order of arrival.                                     *)

\* The ways of putting the members of S in a row
Orders(S) ==
    {f \in [1..Cardinality(S) -> S] :
        \A a, b \in 1..Cardinality(S) : f[a] = f[b] => a = b}

\* The accumulator after the outcomes seen[f[1]], seen[f[2]], ... of a pool
FoldInOrder(pool, f) ==
    LET quotes == [k \in 1..Len(f) |-> seen[f[k]].q]
    IN  IF pool = "team"
        THEN fold_team_props(sport, quotes, Len(quotes))
        ELSE fold_player_props(sport, quotes, Len(quotes))

SameFinal(r1, r2) ==
    /\ r1.odds = r2.odds
    /\ Range(r1.bookmakers) = Range(r2.bookmakers)
    /\ r1.implied_probability = r2.implied_probability
    /\ r1.calculated_probability = r2.calculated_probability
    /\ r1.expected_value = r2.expected_value

\* C26: whatever the order in which the quotes folded into a record arrive,
\* the record ends with the same odds, the same set of bookmakers, the same
\* implied probability, the same calculated probability and the same
\* expected value.
C26_OrderIndependent ==
    \A pool \in Pools : \A i \in 1..Len(MapOf(pool)) :
        \A f \in Orders(QuotesOf(pool, i)) :
            /\ Len(FoldInOrder(pool, f)) = 1
            /\ SameFinal(FoldInOrder(pool, f)[1].value, MapOf(pool)[i].value)

---------------------------------------------------------------------------
(* Properties of the sign of the expected value.                           *)

---------------------------------------------------------------------------
(* Properties of the range of the game-outcome probabilities.              *)

InUnitInterval(p) == RLe(<<0, 1>>, p) /\ RLe(p, <<1, 1>>)

\* C28: the home and the away win probability returned by
\* calculate_game_outcome_probability both lie in [0,1].
C28_OutcomeProbabilitiesInRange ==
    call.fn = "calculate_game_outcome_probability"
        => /\ InUnitInterval(call.result.home_win_probability)
           /\ InUnitInterval(call.result.away_win_probability)

---------------------------------------------------------------------------
(* C30: once get_sport_opportunities has asked the provider for the team   *)
(* odds or the player props of a sport and the provider has returned,      *)
(* whatever it returned, the provider is not asked for them again before   *)
(* the time to live of the entry has passed.                               *)

C30_NoRefetchWithinTTL ==
    \A i, j \in 1..Len(fetches) :
        (/\ i < j
         /\ fetches[i].key = fetches[j].key
         /\ fetches[i].returned.fetch = "ok")
            => fetches[j].time - fetches[i].time >= cache_duration(fetches[i].key)

---------------------------------------------------------------------------
(* C29: of the requests to one rate-limited endpoint, at most max_calls    *)
(* are admitted to the handler in any window of length period (a window    *)
(* holds its first instant and not its last); a request over the limit is  *)
(* answered 429, does not run the handler, and is not counted: the list of *)
(* the decorator holds the admitted requests of the last period only.      *)

Admitted == SelectSeq(requests, LAMBDA r : r.status = 200)

CountIn(admitted, from, to) ==
    Cardinality({i \in 1..Len(admitted) :
                    from <= admitted[i].time /\ admitted[i].time < to})

AdmittedIn(from, to) == CountIn(Admitted, from, to)

LastRequestTime == requests[Len(requests)].time

InQuota ==
    SelectSeq(Admitted, LAMBDA r : LastRequestTime - r.time < StatsPeriod)

C29_RateLimited ==
    /\ LET admitted == Admitted
       IN  \A from \in 0..MaxRateClock + 1 :
               CountIn(admitted, from, from + StatsPeriod) <= StatsMaxCalls
    /\ \A i \in 1..Len(requests) :
           /\ requests[i].status \in {200, 429}
           /\ requests[i].handled <=> requests[i].status = 200
    /\ Len(requests) > 0 => calls = [i \in 1..Len(InQuota) |-> InQuota[i].time]

\* Ten requests were admitted, the next was refused, and after the period a
\* further one was admitted.
C29_Witness ==
    \E i, j \in 1..Len(requests) :
        /\ i < j
        /\ requests[i].status = 429
        /\ requests[j].status = 200
        /\ requests[j].time = requests[i].time + StatsPeriod
        /\ AdmittedIn(requests[i].time, requests[i].time + StatsPeriod) = StatsMaxCalls

---------------------------------------------------------------------------
(* C23: whatever the interleaving of the calls of get_sport_opportunities, *)
(* each call returns the list that it returns when it runs alone on the    *)
(* same quotes.                                                            *)

Alone(sp) ==
    get_sport_opportunities(sp, [team |-> ProviderOdds, player |-> ProviderProps])

C23_NoInterference ==
    \A i \in 1..Len(threads) :
        threads[i].pc = "done" => threads[i].result = Alone(threads[i].sport)

===========================================================================
